---- MODULE Spec2Model ----
(***************************************************************************)
(* Credit categorisation and release reconciliation of the vinyl           *)
(* collection manager: parse_credit_string / categorize_roles /            *)
(* insert_contributions_relational (barcode_scanner/db.py) and             *)
(* get_all_credits / format_release_data (discogs_lookup.py).              *)
(*                                                                         *)
(* Python strings are modelled as sequences of one-character strings, so   *)
(* that strip, split, lower, the regular expressions and the f-string      *)
(* formatting are computed character by character.                         *)
(***************************************************************************)
EXTENDS Integers, Sequences, FiniteSets, TLC

VARIABLES
    \* ---- parser harness (parse_credit_string) ----
    ppc,          \* position of the parser harness
    fmt_name,     \* name handed to the formatter
    fmt_roles,    \* role list handed to the formatter
    credit_str,   \* the credit string handed to parse_credit_string
    parsed,       \* its result, <<name, roles>>, or NotParsed
    \* ---- one call of format_release_data ----
    fpc,          \* "call" before the call, "done" after it
    release,      \* the current release handed to the call
    master,       \* what d.master(release.master.id) yields
    main_release, \* what d.release(master.main_release.id) yields
    fail,         \* where the Discogs client raises, "none" if nowhere
    data,         \* the dict returned by the call
    \* ---- the relational tables and the projector's calls ----
    musicians_data, \* the CategorizedCredits of the record being projected
    items_order,    \* the (heading, subheading) pairs in the dict's own order
    contributors,   \* table contributors: rows in insertion order
    contributions,  \* table contributions: rows in insertion order
    runs,           \* calls of insert_contributions_relational so far
    raised,         \* the database requests that raised in the latest call
    result,         \* what the latest call returned
    \* ---- one call of categorize_roles ----
    cpc,            \* "call" before the call, "done" after it
    roles_in,       \* the role list handed to categorize_roles
    role_split,     \* the (pure_roles, instruments) returned
    \* ---- the classification of one role by get_all_credits ----
    lpc,            \* "call" before the lookup, "done" after it
    role_in,        \* credit.role
    role_bucket,    \* the (heading, subheading) the credit is filed under
    \* ---- one run of backfill_discogs_data.py ----
    bpc,            \* where the run is: the next step of the loop body,
                    \* "raised" once an exception left the loop,
                    \* "finished" after the last record ("dry_" for
                    \* dry_run_comparison)
    records,        \* the records handed to update_records or
                    \* dry_run_comparison, as selected at the start
    idx,            \* position in records of the record being processed
    fresh_data,     \* what fetch_fresh_discogs_data returned for it
    updated_count,  \* update_records' counter
    vinyl_records,  \* table vinyl_records: the row of each record id
    fetched,        \* ids of the records Discogs was asked for
    comparison_data, \* the rows dry_run_comparison collected for its CSV
    discogs,        \* the credits Discogs holds for the release of each record
    restarts,       \* where the earlier runs of the script ended, as
                    \* <<step, position>>, one entry per new start
    swallowed,      \* positions of the records of this run for which a
                    \* request of insert_contributions_relational raised
    \* ---- one call of migrate_record_credits ----
    mpc,            \* "call" before the call, "done" after it
    migrating,      \* the record handed to the call
    dry_run,        \* args.dry_run
    stats,          \* the stats dict the call returned
    \* ---- two processes refreshing the contributions of one record ----
    procs,          \* for each process: the step it is at, the credit it
                    \* is at and the contributor id it holds
    \* ---- one contributor handed to parse_contributors ----
    dpc,            \* "call" before the call, "done" after it
    contributor_in, \* the contributor: a dict or a legacy string
    parsed_data,    \* the entries returned for it
    \* ---- one call of make_discogs_request ----
    rpc,            \* "loop" inside the for loop, "done" once it returned
    max_retries,    \* the argument max_retries
    attempts,       \* the outcomes of the HTTP requests made so far
    returned        \* what the call returned

vars == <<ppc, fmt_name, fmt_roles, credit_str, parsed,
          fpc, release, master, main_release, fail, data,
          musicians_data, items_order, contributors, contributions, runs,
          raised, result, cpc, roles_in, role_split,
          lpc, role_in, role_bucket,
          bpc, records, idx, fresh_data, updated_count, vinyl_records,
          fetched, comparison_data, discogs, restarts, swallowed,
          mpc, migrating, dry_run, stats,
          procs, dpc, contributor_in, parsed_data,
          rpc, max_retries, attempts, returned>>

concurrentVars == <<procs>>

displayVars == <<dpc, contributor_in, parsed_data>>

requestVars == <<rpc, max_retries, attempts, returned>>

restVars == <<concurrentVars, displayVars, requestVars>>

migrateVars == <<mpc, migrating, dry_run, stats>>

backfillVars == <<bpc, records, idx, fresh_data, updated_count, vinyl_records,
                  fetched, comparison_data, discogs, restarts, swallowed>>

projectorVars == <<musicians_data, items_order, contributors, contributions, runs,
                   raised, result>>

formatVars == <<fpc, release, master, main_release, fail, data>>

classifierVars == <<lpc, role_in, role_bucket>>

categorizerVars == <<cpc, roles_in, role_split>>

parserVars == <<ppc, fmt_name, fmt_roles, credit_str, parsed>>

(***************************************************************************)
(* Bounds of the model.                                                    *)
(***************************************************************************)
\* longest role list handed to categorize_roles
MaxRoles == 3

\* longest raw credit string enumerated for the parser
MaxLen == 5
\* total length of name + r1 + r2 enumerated for the format/parse round trip
MaxFmtLen == 4
\* number of credits spread over the credit lists of the two releases
MaxCredits == 2
\* number of credits categorized into the dict handed to the projector
MaxProjected == 2
\* calls of the projector for the same record
MaxRuns == 2
\* upserts that raise during one call of the projector
MaxFailures == 1

(***************************************************************************)
(* Python str helpers.                                                     *)
(***************************************************************************)
\* str.isspace for the characters of the model's alphabets
IsSpace(c) == c = " "

\* number of leading whitespace characters of s
RECURSIVE LeadingSpaces(_)
LeadingSpaces(s) ==
    IF s = <<>> \/ ~IsSpace(Head(s)) THEN 0 ELSE 1 + LeadingSpaces(Tail(s))

\* number of trailing whitespace characters of s
RECURSIVE TrailingSpaces(_)
TrailingSpaces(s) ==
    IF s = <<>> \/ ~IsSpace(s[Len(s)]) THEN 0
    ELSE 1 + TrailingSpaces(SubSeq(s, 1, Len(s) - 1))

\* str.strip()
Strip(s) ==
    LET a == LeadingSpaces(s)
    IN  IF a = Len(s) THEN <<>>
        ELSE SubSeq(s, a + 1, Len(s) - TrailingSpaces(s))

\* str.split(sep) for a one-character separator: always at least one part
RECURSIVE Split(_, _)
Split(s, sep) ==
    IF \A i \in 1..Len(s) : s[i] # sep THEN <<s>>
    ELSE LET i == CHOOSE k \in 1..Len(s) :
                      s[k] = sep /\ \A j \in 1..(k - 1) : s[j] # sep
         IN  <<SubSeq(s, 1, i - 1)>> \o Split(SubSeq(s, i + 1, Len(s)), sep)

\* the comprehension without the strip: [r for r in parts]
StripAllNoStrip(parts) == parts

\* [r.strip() for r in parts]
StripAll(parts) == [i \in 1..Len(parts) |-> Strip(parts[i])]

(***************************************************************************)
(* parse_credit_string, barcode_scanner/db.py.                             *)
(***************************************************************************)
NoMatch == <<0, 0>>

\* The ways  ^(.+)\s*\(([^)]+)\)$  can match s: <<i, p>> where group 1 is
\* s[1..i], s[i+1..p-1] is the \s* run, s[p] is the "(" and group 2 is
\* s[p+1..Len(s)-1], non-empty and without ")".
ReMatches(s) ==
    LET n     == Len(s)
        opens == IF n = 0 \/ s[n] # ")" THEN {}
                 ELSE { p \in 2..(n - 2) :
                          s[p] = "(" /\ \A j \in (p + 1)..(n - 1) : s[j] # ")" }
    IN  UNION { { <<i, p>> : i \in { x \in 1..(p - 1) :
                                       \A j \in (x + 1)..(p - 1) : IsSpace(s[j]) } } :
                p \in opens }

\* a lazy first group (.+?): the match whose group 1 is shortest, so that a
\* name with its own parentheses loses them to the roles
ReMatchFirstParen(s) ==
    LET ms == ReMatches(s)
    IN  IF ms = {} THEN NoMatch
        ELSE CHOOSE m \in ms : \A o \in ms : o[1] >= m[1]

\* re.match with the greedy first group (.+): the match whose group 1 is
\* longest
ReMatch(s) ==
    LET ms == ReMatches(s)
    IN  IF ms = {} THEN NoMatch
        ELSE CHOOSE m \in ms : \A o \in ms : o[1] <= m[1]

\* the function with  return credit_str, []  as its fallback: the string
\* is handed back untrimmed
ParseFallbackUntrimmed(cs) ==
    LET s == Strip(cs)
        m == ReMatch(s)
    IN  IF m # NoMatch
        THEN LET name      == Strip(SubSeq(s, 1, m[1]))
                 roles_str == Strip(SubSeq(s, m[2] + 1, Len(s) - 1))
             IN  <<name, StripAll(Split(roles_str, ","))>>
        ELSE <<cs, <<>>>>

parse_credit_string(cs) ==
    LET s == Strip(cs)
        m == ReMatch(s)
    IN  IF m # NoMatch
        THEN LET name      == Strip(SubSeq(s, 1, m[1]))
                 roles_str == Strip(SubSeq(s, m[2] + 1, Len(s) - 1))
             IN  <<name, StripAll(Split(roles_str, ","))>>
        ELSE <<s, <<>>>>

\* f"{credit.name} ({credit.role})", discogs_lookup.py
FormatCredit(name, role) == name \o <<" ", "(">> \o role \o <<")">>

\* the role string "r1, r2" of a role list
RECURSIVE JoinRoles(_)
JoinRoles(roles) ==
    IF roles = <<>> THEN <<>>
    ELSE IF Len(roles) = 1 THEN roles[1]
    ELSE roles[1] \o <<",", " ">> \o JoinRoles(Tail(roles))

(***************************************************************************)
(* More Python str behaviour used by get_all_credits, discogs_lookup.py.   *)
(***************************************************************************)
UpperCase == <<"A","B","C","D","E","F","G","H","I","J","K","L","M",
               "N","O","P","Q","R","S","T","U","V","W","X","Y","Z">>
LowerCase == <<"a","b","c","d","e","f","g","h","i","j","k","l","m",
               "n","o","p","q","r","s","t","u","v","w","x","y","z">>

\* the characters of the model in code point order (str comparison)
CharOrder == <<" ", "(", ")", ",">>
               \o <<"0","1","2","3","4","5","6","7","8","9", ":">>
               \o UpperCase \o <<"[", "]">> \o LowerCase

Chars == {CharOrder[i] : i \in 1..Len(CharOrder)}

\* ord(c), as the position of c in CharOrder
Ord == [c \in Chars |-> CHOOSE i \in 1..Len(CharOrder) : CharOrder[i] = c]

\* c.lower()
LowerChar == [c \in Chars |->
                IF \E i \in 1..Len(UpperCase) : UpperCase[i] = c
                THEN LowerCase[CHOOSE i \in 1..Len(UpperCase) : UpperCase[i] = c]
                ELSE c]

\* str.lower()
Lower(s) == [i \in 1..Len(s) |-> LowerChar[s[i]]]

\* Python's  a < b  on str: lexicographic by code point
RECURSIVE StrLess(_, _)
StrLess(a, b) ==
    IF b = <<>> THEN FALSE
    ELSE IF a = <<>> THEN TRUE
    ELSE IF Head(a) # Head(b) THEN Ord[Head(a)] < Ord[Head(b)]
    ELSE StrLess(Tail(a), Tail(b))

\* sorted() replaced by a faulty ordering: the elements in DESCENDING
\* order
RECURSIVE Unsorted(_)
Unsorted(S) ==
    IF S = {} THEN <<>>
    ELSE LET m == CHOOSE x \in S : \A y \in S : y = x \/ StrLess(y, x)
         IN  <<m>> \o Unsorted(S \ {m})

\* sorted(list(S)) for a set of str
RECURSIVE Sorted(_)
Sorted(S) ==
    IF S = {} THEN <<>>
    ELSE LET m == CHOOSE x \in S : \A y \in S : y = x \/ StrLess(x, y)
         IN  <<m>> \o Sorted(S \ {m})

\* re.sub(r'\s*\[.*?\]', '', s): at each position, from the left, a run of
\* whitespace followed by "[" and the nearest later "]" is removed
RECURSIVE ReSubBrackets(_)
ReSubBrackets(s) ==
    IF s = <<>> THEN <<>>
    ELSE LET k == LeadingSpaces(s)
         IN  IF /\ k < Len(s)
                /\ s[k + 1] = "["
                /\ \E j \in (k + 2)..Len(s) : s[j] = "]"
             THEN LET j == CHOOSE x \in (k + 2)..Len(s) :
                               s[x] = "]" /\ \A y \in (k + 2)..(x - 1) : s[y] # "]"
                  IN  ReSubBrackets(SubSeq(s, j + 1, Len(s)))
             ELSE <<Head(s)>> \o ReSubBrackets(Tail(s))

(***************************************************************************)
(* The role table ROLE_INDEX (lower-cased role -> heading, subheading).    *)
(***************************************************************************)
Drums == <<"D","r","u","m","s">>
Producer == <<"P","r","o","d","u","c","e","r">>
MixedBy == <<"M","i","x","e","d"," ","B","y">>
Design == <<"D","e","s","i","g","n">>
Whistle == <<"W","h","i","s","t","l","e">>
Tracks37 == <<"[","T","r","a","c","k","s",":"," ","3",",","7","]">>
CommaSpace == <<",", " ">>

ROLE_INDEX ==
    { [key |-> Lower(Drums),    heading |-> "Instruments", subheading |-> "Percussion"],
      [key |-> Lower(Producer), heading |-> "Credits",     subheading |-> "Production"],
      [key |-> Lower(MixedBy),  heading |-> "Credits",     subheading |-> "Production"],
      [key |-> Lower(Design),   heading |-> "Visual",      subheading |-> "Design"] }

\* ROLE_INDEX.get(key) is truthy
InRoleIndex(key) == \E e \in ROLE_INDEX : e.key = key

\* ROLE_INDEX.get(key), for a key of the table
RoleInfo(key) == CHOOSE e \in ROLE_INDEX : e.key = key

(***************************************************************************)
(* get_all_credits, discogs_lookup.py.                                     *)
(***************************************************************************)
\* the loop over the comma parts without the Instruments priority: the
\* first matching part wins
RECURSIVE MatchPartsFirstOnly(_, _, _, _)
MatchPartsFirstOnly(parts, matched, h, sh) ==
    IF parts = <<>> THEN [matched |-> matched, heading |-> h, subheading |-> sh]
    ELSE LET part_lower == Lower(Head(parts))
         IN  IF InRoleIndex(part_lower) /\ ~matched
             THEN MatchPartsFirstOnly(Tail(parts), TRUE,
                       RoleInfo(part_lower).heading, RoleInfo(part_lower).subheading)
             ELSE MatchPartsFirstOnly(Tail(parts), matched, h, sh)

\* the loop over the comma parts with neither the break nor the
\* elif not matched : the last matching part wins
RECURSIVE MatchPartsLastWins(_, _, _, _)
MatchPartsLastWins(parts, matched, h, sh) ==
    IF parts = <<>> THEN [matched |-> matched, heading |-> h, subheading |-> sh]
    ELSE LET part_lower == Lower(Head(parts))
         IN  IF InRoleIndex(part_lower)
             THEN MatchPartsLastWins(Tail(parts), TRUE,
                       RoleInfo(part_lower).heading, RoleInfo(part_lower).subheading)
             ELSE MatchPartsLastWins(Tail(parts), matched, h, sh)

\* for part in parts: ... (lines 87-101), from the state (matched,
\* matched_heading, matched_subheading)
RECURSIVE MatchParts(_, _, _, _)
MatchParts(parts, matched, h, sh) ==
    IF parts = <<>> THEN [matched |-> matched, heading |-> h, subheading |-> sh]
    ELSE LET part_lower == Lower(Head(parts))
         IN  IF InRoleIndex(part_lower)
             THEN IF RoleInfo(part_lower).heading = "Instruments"
                  THEN \* break
                       [matched |-> TRUE, heading |-> RoleInfo(part_lower).heading,
                        subheading |-> RoleInfo(part_lower).subheading]
                  ELSE IF ~matched
                  THEN MatchParts(Tail(parts), TRUE,
                           RoleInfo(part_lower).heading, RoleInfo(part_lower).subheading)
                  ELSE MatchParts(Tail(parts), matched, h, sh)
             ELSE MatchParts(Tail(parts), matched, h, sh)

\* role_for_lookup without the re.sub: the bracketed qualifier stays
RoleForLookupKeepBrackets(role) == Strip(role)

\* role_for_lookup = re.sub(r'\s*\[.*?\]', '', role).strip()
RoleForLookup(role) == Strip(ReSubBrackets(role))

\* the (heading, subheading) under which get_all_credits files a role
BucketOf(role) ==
    LET role_for_lookup == RoleForLookup(role)
        role_lower      == Lower(role_for_lookup)
    IN  IF InRoleIndex(role_lower)
        THEN <<RoleInfo(role_lower).heading, RoleInfo(role_lower).subheading>>
        ELSE LET parts == StripAll(Split(role_for_lookup, ","))
                 m     == MatchParts(parts, FALSE, "None", "None")
             IN  IF m.matched THEN <<m.heading, m.subheading>>
                 ELSE <<"Other", "General">>

EmptyDict == <<>>

\* categorized[heading][subheading].add(formatted_name), creating the
\* heading and the subheading when missing
AddTo(categorized, heading, subheading, formatted_name) ==
    LET c1 == IF heading \in DOMAIN categorized THEN categorized
              ELSE categorized @@ (heading :> EmptyDict)
        c2 == IF subheading \in DOMAIN c1[heading] THEN c1
              ELSE [c1 EXCEPT ![heading] = @ @@ (subheading :> {})]
    IN  [c2 EXCEPT ![heading][subheading] = @ \cup {formatted_name}]

\* the loop with the final else branch (lines 113-120) missing: a credit
\* whose role matches nothing is skipped
RECURSIVE CategorizeDropUnmatched(_, _)
CategorizeDropUnmatched(credits, categorized) ==
    IF credits = <<>> THEN categorized
    ELSE LET credit         == Head(credits)
             formatted_name == FormatCredit(credit.name, credit.role)
             b              == BucketOf(credit.role)
         IN  IF b = <<"Other", "General">>
             THEN CategorizeDropUnmatched(Tail(credits), categorized)
             ELSE CategorizeDropUnmatched(Tail(credits),
                      AddTo(categorized, b[1], b[2], formatted_name))

\* for credit in credits: ... (lines 54-120)
RECURSIVE Categorize(_, _)
Categorize(credits, categorized) ==
    IF credits = <<>> THEN categorized
    ELSE LET credit         == Head(credits)
             formatted_name == FormatCredit(credit.name, credit.role)
             b              == BucketOf(credit.role)
         IN  Categorize(Tail(credits), AddTo(categorized, b[1], b[2], formatted_name))

\* the sets converted to sorted lists (lines 122-125)
SortBuckets(categorized) ==
    [h \in DOMAIN categorized |->
        [sh \in DOMAIN categorized[h] |-> Sorted(categorized[h][sh])]]

get_all_credits(credits) == SortBuckets(Categorize(credits, EmptyDict))

(***************************************************************************)
(* format_release_data, discogs_lookup.py.                                 *)
(*                                                                         *)
(* A Discogs object is a record of the attributes the function reads.      *)
(* None is NoneVal for a scalar and NoneList for a list or a URL.  fail    *)
(* names the place where the Discogs client raises, if it does:            *)
(*   "master"     d.master(...) raises (line 247), master stays None;      *)
(*   "main_ref"   master.main_release / d.release(...) raises (292-294);   *)
(*   "main_data"  the first read of the main release's data raises (300),  *)
(*                after original_release_id and its URL were assigned.     *)
(***************************************************************************)
NoneVal == "None"
NoneList == <<"None">>

\* not v, for a list-valued v
Falsy(v) == v = <<>> \/ v = NoneList

\* f'https://www.discogs.com/release/{id}'
ReleaseUrl(id) == <<"https://www.discogs.com/release/", id>>

\* f'https://www.discogs.com/master/{id}'
MasterUrl(id) == <<"https://www.discogs.com/master/", id>>

\* str(current_release_year)
StrOf(year) == <<"str", year>>

\* the credits of every track that has some, in track order
RECURSIVE TrackCredits(_)
TrackCredits(tracklist) ==
    IF tracklist = <<>> THEN <<>>
    ELSE Head(tracklist).credits \o TrackCredits(Tail(tracklist))

\* release-level credits followed by the per-track credits of one release
AllCreditsOf(rel) == rel.credits \o TrackCredits(rel.tracklist)

\* a per-credit merge of the two releases instead of the fallback
SelectCreditsMerged(main, rel) == AllCreditsOf(main) \o AllCreditsOf(rel)

\* the main release's credits taken only when the main release has a year
SelectCreditsOfDated(main, rel) ==
    IF main.year # NoneVal /\ AllCreditsOf(main) # <<>>
    THEN AllCreditsOf(main) ELSE AllCreditsOf(rel)

\* all_credits in the main release branch (lines 328-361)
SelectCredits(main, rel) ==
    IF AllCreditsOf(main) # <<>> THEN AllCreditsOf(main) ELSE AllCreditsOf(rel)

\* the fallback guarded by  is None  instead of  not : an empty list of the
\* higher source blocks it
FallbackIfNone(value, lower) == IF value = NoneList THEN lower ELSE value

\* if not main_genres: main_genres = <lower source's list>
\* (lines 368-373 and 410-413)
FallbackIfFalsy(value, lower) == IF Falsy(value) THEN lower ELSE value

\* labels[0].name / labels[0].catno, None without labels
FirstLabel(labels) ==
    IF labels # <<>> THEN labels[1] ELSE [name |-> NoneVal, catno |-> NoneVal]

\* the original_* values read from the main release (lines 295-326)
OriginalOf(main, rel) ==
    [id          |-> main.id,
     country     |-> main.country,
     label       |-> FirstLabel(main.labels).name,
     catno       |-> FirstLabel(main.labels).catno,
     year        |-> main.year,
     released    |-> main.released,
     identifiers |-> main.identifiers]

\* the else branch without the copy of the current release (lines 377-383
\* missing): the original_* values stay None
CurrentAsOriginalMissing(rel) ==
    [id          |-> NoneVal,
     country     |-> NoneVal,
     label       |-> NoneVal,
     catno       |-> NoneVal,
     year        |-> NoneVal,
     released    |-> NoneVal,
     identifiers |-> <<>>]

\* "Use current release data as original" (lines 377-383)
CurrentAsOriginal(rel) ==
    [id          |-> rel.id,
     country     |-> rel.country,
     label       |-> FirstLabel(rel.labels).name,
     catno       |-> FirstLabel(rel.labels).catno,
     year        |-> rel.year,
     released    |-> NoneVal,
     identifiers |-> rel.identifiers]

\* the original_* values as initialised (lines 280-287), with the id when
\* the exception came after line 295
OriginalUnset(id) ==
    [id          |-> id,
     country     |-> NoneVal,
     label       |-> NoneVal,
     catno       |-> NoneVal,
     year        |-> NoneVal,
     released    |-> NoneVal,
     identifiers |-> <<>>]

format_release_data(rel, mst, main, fl) ==
    LET current_release_id == rel.id
        \* lines 244-275: master is set when the release has one and the
        \* client did not raise
        master_ok   == rel.has_master /\ fl # "master"
        master_id   == IF master_ok THEN mst.id ELSE NoneVal
        tracklist   == IF master_ok /\ mst.tracklist # <<>> THEN mst.tracklist ELSE <<>>
        genres0     == IF master_ok THEN mst.genres ELSE <<>>
        styles0     == IF master_ok THEN mst.styles ELSE <<>>
        \* line 292: if master and hasattr(master, 'main_release')
        take_main   == master_ok /\ mst.has_main_release
        main_ok     == take_main /\ fl \notin {"main_ref", "main_data"}
        original    == IF main_ok THEN OriginalOf(main, rel)
                       ELSE IF take_main
                       THEN OriginalUnset(IF fl = "main_ref" THEN NoneVal ELSE main.id)
                       ELSE CurrentAsOriginal(rel)
        all_credits == IF main_ok THEN SelectCredits(main, rel)
                       ELSE IF take_main THEN <<>>
                       ELSE AllCreditsOf(rel)
        all_credits_categorized ==
                       IF all_credits # <<>> THEN get_all_credits(all_credits)
                       ELSE EmptyDict
        \* lines 367-373, inside the main release branch
        genres1     == IF main_ok THEN FallbackIfFalsy(genres0, main.genres) ELSE genres0
        styles1     == IF main_ok THEN FallbackIfFalsy(styles0, main.styles) ELSE styles0
        \* lines 409-413
        main_genres == FallbackIfFalsy(genres1, rel.genres)
        main_styles == FallbackIfFalsy(styles1, rel.styles)
    IN  [year                  |-> original.year,
         label                 |-> original.label,
         genres                |-> main_genres,
         styles                |-> main_styles,
         country               |-> original.country,
         master_id             |-> master_id,
         master_url            |-> IF master_ok THEN MasterUrl(master_id) ELSE NoneList,
         tracklist             |-> tracklist,
         original_release_id   |-> original.id,
         original_release_url  |-> IF original.id # NoneVal THEN ReleaseUrl(original.id)
                                   ELSE NoneList,
         original_catno        |-> original.catno,
         original_release_date |-> original.released,
         original_identifiers  |-> original.identifiers,
         musicians             |-> all_credits_categorized,
         current_release_id    |-> current_release_id,
         current_release_url   |-> ReleaseUrl(current_release_id),
         current_release_year  |-> IF rel.year # NoneVal THEN StrOf(rel.year)
                                   ELSE NoneList,
         current_release_date  |-> rel.released,
         current_label         |-> FirstLabel(rel.labels).name,
         current_catno         |-> FirstLabel(rel.labels).catno,
         current_country       |-> rel.country,
         current_identifiers   |-> rel.identifiers]

(***************************************************************************)
(* The releases handed to format_release_data.                             *)
(***************************************************************************)
NameA == <<"A">>
NameB == <<"B">>
MakayaMcCraven == <<"M","a","k","a","y","a"," ","M","c","C","r","a","v","e","n">>

CreditUniverse ==
    { [name |-> NameA, role |-> Drums],
      [name |-> NameB, role |-> Drums],
      [name |-> NameA, role |-> Producer],
      [name |-> NameA, role |-> Producer \o CommaSpace \o Drums],
      [name |-> NameA, role |-> Design \o CommaSpace \o Producer],
      [name |-> NameA, role |-> Whistle],
      [name |-> NameB, role |-> Whistle \o CommaSpace \o Whistle],
      [name |-> NameB, role |-> MixedBy \o <<" ">> \o Tracks37],
      [name |-> MakayaMcCraven,
       role |-> Drums \o CommaSpace \o Producer \o CommaSpace \o MixedBy] }

MainSlots == {"main.credits", "main.track1", "main.track2"}
ReleaseSlots == {"release.credits", "release.track1"}

\* the credits a placement list puts at one slot, in list order
RECURSIVE CreditsAt(_, _)
CreditsAt(pl, slot) ==
    IF pl = <<>> THEN <<>>
    ELSE (IF Head(pl)[2] = slot THEN <<Head(pl)[1]>> ELSE <<>>)
             \o CreditsAt(Tail(pl), slot)

Label(n, c) == [name |-> n, catno |-> c]
Identifier(v) == [type |-> "Barcode", value |-> v, description |-> NoneVal]
Track(p) == [position |-> p, title |-> "Title", duration |-> "3:00"]

\* a current release with every field filled
FullRelease ==
    [id |-> "200", has_master |-> TRUE, country |-> "UK", year |-> "2020",
     released |-> "2020-05-01",
     labels |-> <<Label("Reissue Label", "RE-2")>>,
     identifiers |-> <<Identifier("222")>>,
     genres |-> <<"Pop">>, styles |-> <<"Synth-pop">>,
     credits |-> <<>>, tracklist |-> <<>>]

\* a main release with every field filled
FullMain ==
    [id |-> "100", country |-> "US", year |-> "1959",
     released |-> "1959-08-17",
     labels |-> <<Label("First Label", "FL-1")>>,
     identifiers |-> <<Identifier("111")>>,
     genres |-> <<"Jazz">>, styles |-> <<"Modal">>,
     credits |-> <<>>, tracklist |-> <<>>]

FullMaster ==
    [id |-> "300", has_main_release |-> TRUE,
     genres |-> <<"Electronic">>, styles |-> <<"Ambient">>,
     tracklist |-> <<Track("A1")>>]

NotFormatted == [year |-> "not formatted"]
NoResult == [success |-> FALSE, error |-> "not called"]
NotParsed == <<"not parsed">>
NoName == <<"no name">>

IdleFormat ==
    /\ fpc = "idle"
    /\ release = FullRelease
    /\ master = FullMaster
    /\ main_release = FullMain
    /\ fail = "none"
    /\ data = NotFormatted

IdleParser ==
    /\ ppc = "idle"
    /\ fmt_name = NoName
    /\ fmt_roles = <<>>
    /\ credit_str = <<>>
    /\ parsed = NotParsed

NotSplit == [pure_roles |-> <<"not split">>, instruments |-> <<>>]

NotClassified == <<"not classified", "not classified">>

IdleClassifier ==
    /\ lpc = "idle"
    /\ role_in = <<>>
    /\ role_bucket = NotClassified

IdleCategorizer ==
    /\ cpc = "idle"
    /\ roles_in = <<>>
    /\ role_split = NotSplit

NoneDict == [None |-> TRUE]

IdleBackfill ==
    /\ bpc = "idle"
    /\ records = <<>>
    /\ idx = 0
    /\ fresh_data = NoneDict
    /\ updated_count = 0
    /\ vinyl_records = <<>>
    /\ fetched = {}
    /\ comparison_data = <<>>
    /\ restarts = <<>>
    /\ swallowed = {}
    /\ discogs = <<>>

NoRecord == [id |-> 0]
NoStats == [record_id |-> 0]

IdleConcurrent == procs = <<>>

NotParsedData == <<"not parsed">>

IdleDisplay ==
    /\ dpc = "idle"
    /\ contributor_in = [kind |-> "none"]
    /\ parsed_data = NotParsedData

NotReturned == "not returned"

IdleRequest ==
    /\ rpc = "idle"
    /\ max_retries = 0
    /\ attempts = <<>>
    /\ returned = NotReturned

IdleRest ==
    /\ IdleConcurrent
    /\ IdleDisplay
    /\ IdleRequest

IdleMigrate ==
    /\ mpc = "idle"
    /\ migrating = NoRecord
    /\ dry_run = FALSE
    /\ stats = NoStats

IdleProjector ==
    /\ musicians_data = EmptyDict
    /\ items_order = <<>>
    /\ contributors = <<>>
    /\ contributions = <<>>
    /\ runs = 0
    /\ raised = {}
    /\ result = NoResult

\* the ways the release can have, or lack, a master and a main release, and
\* the places the client can raise in each
Editions ==
    { <<FALSE, FALSE, "none">>,
      <<TRUE, FALSE, "none">>, <<TRUE, FALSE, "master">>,
      <<TRUE, TRUE, "none">>, <<TRUE, TRUE, "master">>,
      <<TRUE, TRUE, "main_ref">>, <<TRUE, TRUE, "main_data">> }

\* the main release is read in full only here
MainIsRead(e) == e = <<TRUE, TRUE, "none">>

\* Aggregator harness: up to MaxCredits credits placed on the release-level
\* and per-track credit lists of the main and the current release
InitAggregator ==
    /\ IdleParser
    /\ IdleProjector
    /\ IdleCategorizer
    /\ IdleClassifier
    /\ IdleRest
    /\ IdleBackfill
    /\ IdleMigrate
    /\ fpc = "call"
    /\ data = NotFormatted
    /\ \E e \in Editions :
         /\ fail = e[3]
         /\ master = [FullMaster EXCEPT !.has_main_release = e[2]]
         /\ \E k \in 0..MaxCredits :
              \E pl \in [1..k -> CreditUniverse \X
                           (IF MainIsRead(e) THEN MainSlots \cup ReleaseSlots
                            ELSE ReleaseSlots)] :
                /\ main_release =
                     [FullMain EXCEPT
                        !.credits = CreditsAt(pl, "main.credits"),
                        !.tracklist = << [credits |-> CreditsAt(pl, "main.track1")],
                                         [credits |-> CreditsAt(pl, "main.track2")] >>]
                /\ release =
                     [FullRelease EXCEPT
                        !.has_master = e[1],
                        !.credits = CreditsAt(pl, "release.credits"),
                        !.tracklist = << [credits |-> CreditsAt(pl, "release.track1")] >>]

ListChoices(tag) == {NoneList, <<>>, <<tag>>}
StyleChoices(tag) == {<<>>, <<tag>>}
ScalarChoices(v) == {NoneVal, v}
LabelChoices(n, c) == {<<>>, <<Label(n, c)>>}
IdentifierChoices(v) == {<<>>, <<Identifier(v)>>}

CreditA == [name |-> NameA, role |-> Drums]
CreditB == [name |-> NameB, role |-> Producer]

\* Reconciler harness: every combination of present and missing fields of
\* the three editions, with fixed credits
InitReconciler ==
    /\ IdleParser
    /\ IdleProjector
    /\ IdleCategorizer
    /\ IdleClassifier
    /\ IdleRest
    /\ IdleBackfill
    /\ IdleMigrate
    /\ fpc = "call"
    /\ data = NotFormatted
    /\ \E e \in Editions :
         /\ fail = e[3]
         /\ \E g \in ListChoices("Electronic"), s \in StyleChoices("Ambient"),
               tl \in {<<>>, <<Track("A1")>>} :
              master = [FullMaster EXCEPT !.has_main_release = e[2],
                           !.genres = g, !.styles = s, !.tracklist = tl]
         /\ IF MainIsRead(e)
            THEN \E g \in ListChoices("Jazz"), s \in StyleChoices("Modal"),
                    c \in ScalarChoices("US"), y \in ScalarChoices("1959"),
                    l \in LabelChoices("First Label", "FL-1"),
                    i \in IdentifierChoices("111") :
                   main_release = [FullMain EXCEPT !.genres = g, !.styles = s,
                                      !.country = c, !.year = y, !.labels = l,
                                      !.identifiers = i, !.credits = <<CreditA>>]
            ELSE main_release = [FullMain EXCEPT !.credits = <<CreditA>>]
         /\ \E g \in ListChoices("Pop"), s \in StyleChoices("Synth-pop"),
               c \in ScalarChoices("UK"), y \in ScalarChoices("2020"),
               l \in LabelChoices("Reissue Label", "RE-2"),
               i \in IdentifierChoices("222") :
              release = [FullRelease EXCEPT !.has_master = e[1],
                            !.genres = g, !.styles = s,
                            !.country = c, !.year = y, !.labels = l,
                            !.identifiers = i, !.credits = <<CreditB>>]

\* one call of format_release_data(release)
FormatReleaseData ==
    /\ fpc = "call"
    /\ data' = format_release_data(release, master, main_release, fail)
    /\ fpc' = "done"
    /\ UNCHANGED <<release, master, main_release, fail>>
    /\ UNCHANGED <<parserVars, projectorVars, categorizerVars, classifierVars, backfillVars, migrateVars, restVars>>

NextFormat == FormatReleaseData

SpecAggregator == InitAggregator /\ [][NextFormat]_vars

SpecReconciler == InitReconciler /\ [][NextFormat]_vars

(***************************************************************************)
(* categorize_roles and insert_contributions_relational,                   *)
(* barcode_scanner/db.py, against tables that enforce the unique keys      *)
(* contributors.name and contributions (record_id, contributor_id,         *)
(* category_id).                                                           *)
(***************************************************************************)
role_keywords ==
    { <<"b","y">>, <<"p","r","o","d","u","c","e","r">>,
      <<"e","n","g","i","n","e","e","r">>, <<"m","a","s","t","e","r","e","d">>,
      <<"m","i","x","e","d">>, <<"r","e","c","o","r","d","e","d">>,
      <<"w","r","i","t","t","e","n">>, <<"c","o","m","p","o","s","e","d">>,
      <<"a","r","r","a","n","g","e","d">>, <<"f","e","a","t","u","r","i","n","g">>,
      <<"p","e","r","f","o","r","m","e","r">>, <<"c","o","n","d","u","c","t","o","r">>,
      <<"l","e","a","d","e","r">>, <<"e","d","i","t","e","d">>,
      <<"o","v","e","r","d","u","b","b","e","d">> }

\* sub in s, for str
Contains(s, sub) ==
    \E i \in 0..(Len(s) - Len(sub)) : \A j \in 1..Len(sub) : s[i + j] = sub[j]

\* the test without  role_lower = role.lower(): case-sensitive
IsPureRoleCaseSensitive(role) ==
    \E keyword \in role_keywords : Contains(role, keyword)

\* any(keyword in role_lower for keyword in role_keywords)
IsPureRole(role) ==
    LET role_lower == Lower(role)
    IN  \E keyword \in role_keywords : Contains(role_lower, keyword)

\* the elements of roles whose flag equals want, in order
RECURSIVE Pick(_, _, _)
Pick(roles, flags, want) ==
    IF roles = <<>> THEN <<>>
    ELSE (IF Head(flags) = want THEN <<Head(roles)>> ELSE <<>>)
            \o Pick(Tail(roles), Tail(flags), want)

categorize_roles(roles) ==
    LET is_role == [i \in 1..Len(roles) |-> IsPureRole(roles[i])]
    IN  [pure_roles  |-> Pick(roles, is_role, TRUE),
         instruments |-> Pick(roles, is_role, FALSE)]

\* the rows of contribution_categories; (Visual, Design) has no row
contribution_categories ==
    { [id |-> "cat-perc", main_category |-> "Instruments", sub_category |-> "Percussion"],
      [id |-> "cat-prod", main_category |-> "Credits",     sub_category |-> "Production"],
      [id |-> "cat-other", main_category |-> "Other",      sub_category |-> "General"] }

\* category_map.get((main_category, sub_category))
CategoryId(main_category, sub_category) ==
    IF \E cat \in contribution_categories :
          cat.main_category = main_category /\ cat.sub_category = sub_category
    THEN (CHOOSE cat \in contribution_categories :
            cat.main_category = main_category /\ cat.sub_category = sub_category).id
    ELSE NoneVal

\* SELECT id FROM contributors WHERE name = ...: 0 when there is no row
ContributorIdOf(ctrs, name) ==
    IF \E i \in 1..Len(ctrs) : ctrs[i].name = name
    THEN ctrs[CHOOSE i \in 1..Len(ctrs) : ctrs[i].name = name].id
    ELSE 0

\* a plain insert into contributors: no unique name, the row is added again
InsertContributor(ctrs, name) ==
    Append(ctrs, [id |-> Len(ctrs) + 1, name |-> name])

\* contributors.upsert({'name': name}, on_conflict='name'): the table after
\* it; a new row takes the next serial id
UpsertContributor(ctrs, name) ==
    IF ContributorIdOf(ctrs, name) # 0 THEN ctrs
    ELSE Append(ctrs, [id |-> Len(ctrs) + 1, name |-> name])

SameKey(a, b) ==
    /\ a.record_id = b.record_id
    /\ a.contributor_id = b.contributor_id
    /\ a.category_id = b.category_id

\* a plain insert: no ON CONFLICT, the row is added again
InsertContribution(rows, row) == Append(rows, row)

\* contributions.upsert(row, on_conflict='record_id,contributor_id,
\* category_id'): the conflicting row is replaced, else the row is added
UpsertContribution(rows, row) ==
    IF \E i \in 1..Len(rows) : SameKey(rows[i], row)
    THEN [i \in 1..Len(rows) |-> IF SameKey(rows[i], row) THEN row ELSE rows[i]]
    ELSE Append(rows, row)

\* the body of  for credit_str in credits  (lines 251-289) for the k-th
\* credit of the call; fails holds the database requests that raise:
\*   <<k, "contributor">>   the contributors upsert (257-259), the select
\*                          of the except branch (265) answering;
\*   <<k, "lookup">>        the contributors upsert and that select too:
\*                          the exception leaves the loops (293-295);
\*   <<k, "contribution">>  the contributions upsert (283-286)
ProjectCredit(st, record_id, user_id, category_id, shredded, k, fails) ==
    LET name  == shredded.name
        split == shredded.split
        select_raised == <<k, "lookup">> \in fails
        upsert_raised == <<k, "contributor">> \in fails \/ select_raised
        ctrs  == IF upsert_raised THEN st.contributors
                 ELSE UpsertContributor(st.contributors, name)
        contributor_id == ContributorIdOf(ctrs, name)
        contribution_data ==
            [record_id |-> record_id, user_id |-> user_id,
             contributor_id |-> contributor_id, category_id |-> category_id,
             roles |-> split.pure_roles, instruments |-> split.instruments]
    IN  IF select_raised
        THEN [st EXCEPT !.error = TRUE]
        ELSE IF upsert_raised /\ contributor_id = 0
        THEN st    \* "Error with contributor": continue
        ELSE LET st1 == [st EXCEPT !.contributors = ctrs,
                                   !.contributors_added =
                                       IF upsert_raised THEN @ ELSE @ + 1]
             IN  IF <<k, "contribution">> \in fails
                 THEN st1    \* "Error inserting contribution"
                 ELSE [st1 EXCEPT !.contributions = UpsertContribution(@, contribution_data),
                                  !.contributions_added = @ + 1]

\* the credits projected: two roles of A in one bucket, a bracketed role,
\* a role whose category has no row, and an unclassified role
ProjectedUniverse ==
    { [name |-> NameA, role |-> Drums],
      [name |-> NameA, role |-> Producer \o CommaSpace \o Drums],
      [name |-> NameB, role |-> MixedBy \o <<" ">> \o Tracks37],
      [name |-> NameA, role |-> Design \o CommaSpace \o Producer],
      [name |-> NameB, role |-> Whistle] }

DrumsLive == Drums \o <<" ", "(", "L", "i", "v", "e", ")">>
JoelRoss == <<"J","o","e","l"," ","R","o","s","s"," ","(","3",")">>
PerformerRole == <<"P","e","r","f","o","r","m","e","r">>

\* credits whose name carries a disambiguation suffix, whose role is
\* empty, holds brackets or parentheses, and credits of one contributor
\* that fall in one bucket with different role texts
IdentityUniverse ==
    { [name |-> NameA, role |-> <<>>],
      [name |-> JoelRoss, role |-> PerformerRole],
      [name |-> NameA, role |-> Drums],
      [name |-> NameA, role |-> Drums \o <<" ">> \o Tracks37],
      [name |-> NameA, role |-> DrumsLive],
      [name |-> NameB, role |-> MixedBy \o <<" ">> \o Tracks37] }

\* name, roles = parse_credit_string(credit_str)
\* pure_roles, instruments = categorize_roles(roles)      (lines 252-253)
Shred(cs) ==
    LET parse == parse_credit_string(cs)
    IN  [name |-> parse[1], split |-> categorize_roles(parse[2])]

\* Shred tabulated over the credit strings the projected credits format to
Shredded ==
    [cs \in {FormatCredit(c.name, c.role) :
                c \in ProjectedUniverse \cup IdentityUniverse} |-> Shred(cs)]

ShredOf(cs) == IF cs \in DOMAIN Shredded THEN Shredded[cs] ELSE Shred(cs)

\* the loops without the  if not category_id: continue  of lines 247-249:
\* the credits of a bucket without a category row are visited too
RECURSIVE VisitedUnknownToo(_, _)
VisitedUnknownToo(md, order) ==
    IF order = <<>> THEN <<>>
    ELSE LET main_category == Head(order)[1]
             sub_category  == Head(order)[2]
             category_id   == CategoryId(main_category, sub_category)
             credits       == md[main_category][sub_category]
         IN  (IF main_category = "_role_index" THEN <<>>
              ELSE [i \in 1..Len(credits) |-> <<category_id, ShredOf(credits[i])>>])
                 \o VisitedUnknownToo(md, Tail(order))

\* the credits the loops visit, as <<category_id, shredded credit_str>>,
\* for the buckets taken in the order given; '_role_index' and unknown
\* categories are skipped
RECURSIVE Visited(_, _)
Visited(md, order) ==
    IF order = <<>> THEN <<>>
    ELSE LET main_category == Head(order)[1]
             sub_category  == Head(order)[2]
             category_id   == CategoryId(main_category, sub_category)
             credits       == md[main_category][sub_category]
         IN  (IF main_category = "_role_index" \/ category_id = NoneVal THEN <<>>
              ELSE [i \in 1..Len(credits) |-> <<category_id, ShredOf(credits[i])>>])
                 \o Visited(md, Tail(order))

RECURSIVE ProjectAll(_, _, _, _, _, _)
ProjectAll(st, record_id, user_id, visited, k, fails) ==
    IF k > Len(visited) \/ st.error THEN st
    ELSE ProjectAll(ProjectCredit(st, record_id, user_id,
                                  visited[k][1], visited[k][2], k, fails),
                    record_id, user_id, visited, k + 1, fails)

\* the select of contribution_categories (line 231) raises
CategoriesFail == <<0, "categories">>

\* the tables, the stats and the outcome (error: the outer except was
\* taken) of insert_contributions_relational(client, record_id, user_id,
\* md), visited being the credits of md in the order the loops reach them
insert_contributions_relational(ctrs, rows, record_id, user_id, md, visited, fails) ==
    LET st0 == [contributors |-> ctrs, contributions |-> rows,
                contributors_added |-> 0, contributions_added |-> 0,
                error |-> FALSE]
    IN  IF md = EmptyDict THEN st0
        ELSE IF CategoriesFail \in fails THEN [st0 EXCEPT !.error = TRUE]
        ELSE ProjectAll(st0, record_id, user_id, visited, 1, fails)

\* s without the repetitions of its elements, first occurrences kept
RECURSIVE Dedupe(_)
Dedupe(s) ==
    IF s = <<>> THEN <<>>
    ELSE LET rest == Dedupe(SubSeq(s, 1, Len(s) - 1))
         IN  IF \E i \in 1..Len(rest) : rest[i] = s[Len(s)] THEN rest
             ELSE Append(rest, s[Len(s)])

\* the order in which .items() yields the (heading, subheading) pairs of
\* get_all_credits(credits): a dict keeps insertion order, so headings come
\* in the order their first credit was seen, and so do the subheadings of
\* one heading
RECURSIVE ItemsOfHeadings(_, _)
ItemsOfHeadings(headings, buckets) ==
    IF headings = <<>> THEN <<>>
    ELSE SelectSeq(buckets, LAMBDA b : b[1] = Head(headings))
            \o ItemsOfHeadings(Tail(headings), buckets)

ItemsOrder(credits) ==
    LET buckets  == Dedupe([i \in 1..Len(credits) |-> BucketOf(credits[i].role)])
        headings == Dedupe([i \in 1..Len(buckets) |-> buckets[i][1]])
    IN  ItemsOfHeadings(headings, buckets)

RecordId == "rec-1"
OtherRecordId == "rec-2"
UserId == "user-1"

Stale == <<"S","t","a","l","e">>

\* tables left by earlier syncs: contributor A with a contribution to this
\* record, whose roles are stale, and one to another record
EarlierRows ==
    << [record_id |-> RecordId, user_id |-> UserId, contributor_id |-> 1,
        category_id |-> "cat-perc", roles |-> <<Stale>>, instruments |-> <<>>],
       [record_id |-> OtherRecordId, user_id |-> UserId, contributor_id |-> 1,
        category_id |-> "cat-perc", roles |-> <<>>, instruments |-> <<Drums>>] >>

\* the database requests of a call that may raise: at most MaxFailures
\* of them
Requests(n) ==
    {CategoriesFail} \cup ((1..n) \X {"contributor", "lookup", "contribution"})

RECURSIVE PlansUpTo(_, _)
PlansUpTo(requests, m) ==
    IF m = 0 THEN {{}}
    ELSE LET smaller == PlansUpTo(requests, m - 1)
         IN  smaller \cup {f \cup {r} : f \in smaller, r \in requests}

FailPlans(n) == PlansUpTo(Requests(n), MaxFailures)

InitProjector ==
    /\ IdleParser
    /\ IdleFormat
    /\ IdleCategorizer
    /\ IdleClassifier
    /\ IdleRest
    /\ IdleBackfill
    /\ IdleMigrate
    /\ runs = 0
    /\ raised = {}
    /\ result = NoResult
    /\ \E k \in 0..MaxProjected : \E cl \in [1..k -> ProjectedUniverse] :
         /\ musicians_data = get_all_credits(cl)
         /\ items_order = ItemsOrder(cl)
    /\ \/ contributors = <<>> /\ contributions = <<>>
       \/ contributors = <<[id |-> 1, name |-> NameA]>> /\ contributions = EarlierRows

\* the projector fed with the categorized credits of IdentityUniverse
InitIdentity ==
    /\ IdleParser
    /\ IdleFormat
    /\ IdleCategorizer
    /\ IdleClassifier
    /\ IdleRest
    /\ IdleBackfill
    /\ IdleMigrate
    /\ runs = 0
    /\ raised = {}
    /\ result = NoResult
    /\ \E k \in 0..MaxProjected : \E cl \in [1..k -> IdentityUniverse] :
         /\ musicians_data = get_all_credits(cl)
         /\ items_order = ItemsOrder(cl)
    /\ \/ contributors = <<>> /\ contributions = <<>>
       \/ contributors = <<[id |-> 1, name |-> NameA]>> /\ contributions = EarlierRows

\* one call insert_contributions_relational(client, record_id, user_id,
\* musicians_data) for the same record and the same credits
InsertContributionsRelational ==
    /\ runs < MaxRuns
    /\ LET visited == Visited(musicians_data, items_order)
       IN  \E fails \in FailPlans(Len(visited)) :
           LET st == insert_contributions_relational(contributors, contributions,
                         RecordId, UserId, musicians_data, visited, fails)
           IN  /\ contributors' = st.contributors
               /\ contributions' = st.contributions
               /\ result' = IF st.error
                             THEN [success |-> FALSE, error |-> "str(e)"]
                             ELSE [success |-> TRUE,
                                   contributors_added |-> st.contributors_added,
                                   contributions_added |-> st.contributions_added]
               /\ raised' = fails
    /\ runs' = runs + 1
    /\ UNCHANGED <<musicians_data, items_order>>
    /\ UNCHANGED <<parserVars, formatVars, categorizerVars, classifierVars, backfillVars, migrateVars, restVars>>

NextProjector == InsertContributionsRelational

SpecProjector == InitProjector /\ [][NextProjector]_vars

SpecIdentity == InitIdentity /\ [][NextProjector]_vars

(***************************************************************************)
(* Two backfill processes refreshing the contributions of one record:     *)
(* the delete of update_records (backfill_discogs_data.py 336-340) and    *)
(* the two upserts per credit of insert_contributions_relational          *)
(* (db.py 257-259, 283-286), each one database request.                   *)
(***************************************************************************)
Processes == {1, 2}

Other(p) == 3 - p

\* the credits one call of insert_contributions_relational visits
FreshVisited == Visited(musicians_data, items_order)

\* process p has written a contribution and has requests left
Writing(p) ==
    /\ procs[p].pc \in {"contributor", "contribution"}
    /\ procs[p].k > 1 \/ procs[p].pc = "contribution"

InitConcurrent ==
    /\ IdleParser
    /\ IdleFormat
    /\ IdleCategorizer
    /\ IdleClassifier
    /\ IdleDisplay
    /\ IdleRequest
    /\ IdleBackfill
    /\ IdleMigrate
    /\ runs = 0
    /\ raised = {}
    /\ result = NoResult
    /\ \E k \in 0..MaxProjected : \E cl \in [1..k -> ProjectedUniverse] :
         /\ musicians_data = get_all_credits(cl)
         /\ items_order = ItemsOrder(cl)
    /\ \/ contributors = <<>> /\ contributions = <<>>
       \/ contributors = <<[id |-> 1, name |-> NameA]>> /\ contributions = EarlierRows
    /\ procs = [p \in Processes |-> [pc |-> "delete", k |-> 0, overlap |-> FALSE]]

\* supabase.table('contributions').delete().eq('record_id', ...)
\* .eq('user_id', ...).execute() of process p; insert_contributions_relational
\* returns at once for empty musicians_data
ConcurrentDelete(p) ==
    /\ procs # <<>>
    /\ procs[p].pc = "delete"
    /\ contributions' =
          SelectSeq(contributions,
                    LAMBDA r : ~(r.record_id = RecordId /\ r.user_id = UserId))
    /\ procs' = [procs EXCEPT ![p] =
                    [pc |-> IF FreshVisited = <<>> THEN "done" ELSE "contributor",
                     k |-> 1, overlap |-> Writing(Other(p))]]
    /\ UNCHANGED <<musicians_data, items_order, contributors, runs, raised, result>>
    /\ UNCHANGED <<parserVars, formatVars, categorizerVars, classifierVars, backfillVars, migrateVars, displayVars, requestVars>>

\* client.table('contributors').upsert({'name': name}, on_conflict='name')
\* of process p for its k-th credit
ConcurrentUpsertContributor(p) ==
    /\ procs # <<>>
    /\ procs[p].pc = "contributor"
    /\ contributors' =
          UpsertContributor(contributors, FreshVisited[procs[p].k][2].name)
    /\ procs' = [procs EXCEPT ![p].pc = "contribution"]
    /\ UNCHANGED <<musicians_data, items_order, contributions, runs, raised, result>>
    /\ UNCHANGED <<parserVars, formatVars, categorizerVars, classifierVars, backfillVars, migrateVars, displayVars, requestVars>>

\* client.table('contributions').upsert(contribution_data, on_conflict=
\* 'record_id,contributor_id,category_id') of process p for its k-th credit
ConcurrentUpsertContribution(p) ==
    /\ procs # <<>>
    /\ procs[p].pc = "contribution"
    /\ LET credit == FreshVisited[procs[p].k]
           contribution_data ==
               [record_id |-> RecordId, user_id |-> UserId,
                contributor_id |-> ContributorIdOf(contributors, credit[2].name),
                category_id |-> credit[1],
                roles |-> credit[2].split.pure_roles,
                instruments |-> credit[2].split.instruments]
       IN  contributions' = UpsertContribution(contributions, contribution_data)
    /\ procs' = [procs EXCEPT ![p] =
                    IF procs[p].k = Len(FreshVisited)
                    THEN [@ EXCEPT !.pc = "done"]
                    ELSE [@ EXCEPT !.pc = "contributor", !.k = @ + 1]]
    /\ UNCHANGED <<musicians_data, items_order, contributors, runs, raised, result>>
    /\ UNCHANGED <<parserVars, formatVars, categorizerVars, classifierVars, backfillVars, migrateVars, displayVars, requestVars>>

NextConcurrent ==
    \E p \in Processes :
        \/ ConcurrentDelete(p)
        \/ ConcurrentUpsertContributor(p)
        \/ ConcurrentUpsertContribution(p)

SpecConcurrent == InitConcurrent /\ [][NextConcurrent]_vars

(***************************************************************************)
(* make_discogs_request, discogs_data.py.                                  *)
(***************************************************************************)
MaxRetries == 3

\* what one pass of the try block meets: a response with its status code,
\* a 200 response whose .json() raises, or requests.get raising
Outcomes == {"200", "200 json raised", "429", "404", "500", "raised"}

\* the outcomes that reach the except branch (lines 56-60)
Raising == {"200 json raised", "raised"}

ReturnedJson == "response.json()"

InitRequest ==
    /\ IdleParser
    /\ IdleFormat
    /\ IdleProjector
    /\ IdleCategorizer
    /\ IdleClassifier
    /\ IdleConcurrent
    /\ IdleDisplay
    /\ IdleBackfill
    /\ IdleMigrate
    /\ rpc = "loop"
    /\ max_retries \in 0..MaxRetries
    /\ attempts = <<>>
    /\ returned = NotReturned

\* the body of the loop with the else branch of the status test missing:
\* any status but 200 is tried again
RequestAttemptRetriesAnyStatus ==
    /\ rpc = "loop"
    /\ Len(attempts) < max_retries
    /\ \E outcome \in Outcomes :
         LET attempt == Len(attempts)
         IN  /\ attempts' = Append(attempts, outcome)
             /\ IF outcome = "200"
                THEN rpc' = "done" /\ returned' = ReturnedJson
                ELSE IF outcome \in Raising /\ attempt >= max_retries - 1
                THEN rpc' = "done" /\ returned' = NoneVal
                ELSE rpc' = "loop" /\ UNCHANGED returned
    /\ UNCHANGED max_retries
    /\ UNCHANGED <<parserVars, formatVars, projectorVars, categorizerVars, classifierVars, backfillVars, migrateVars, concurrentVars, displayVars>>

\* one pass of  for attempt in range(max_retries)  (lines 39-60)
RequestAttempt ==
    /\ rpc = "loop"
    /\ Len(attempts) < max_retries
    /\ \E outcome \in Outcomes :
         LET attempt == Len(attempts)
         IN  /\ attempts' = Append(attempts, outcome)
             /\ IF outcome = "200"
                THEN rpc' = "done" /\ returned' = ReturnedJson
                ELSE IF outcome = "429"
                THEN rpc' = "loop" /\ UNCHANGED returned
                ELSE IF outcome \in Raising /\ attempt < max_retries - 1
                THEN rpc' = "loop" /\ UNCHANGED returned
                ELSE rpc' = "done" /\ returned' = NoneVal
    /\ UNCHANGED max_retries
    /\ UNCHANGED <<parserVars, formatVars, projectorVars, categorizerVars, classifierVars, backfillVars, migrateVars, concurrentVars, displayVars>>

\* the loop is over: print("Max retries exceeded"); return None
MaxRetriesExceeded ==
    /\ rpc = "loop"
    /\ Len(attempts) >= max_retries
    /\ rpc' = "done"
    /\ returned' = NoneVal
    /\ UNCHANGED <<max_retries, attempts>>
    /\ UNCHANGED <<parserVars, formatVars, projectorVars, categorizerVars, classifierVars, backfillVars, migrateVars, concurrentVars, displayVars>>

NextRequest == RequestAttempt \/ MaxRetriesExceeded

SpecRequest == InitRequest /\ [][NextRequest]_vars

\* every HTTP request answers or raises, and the sleeps end
SpecRequestFair == SpecRequest /\ WF_vars(NextRequest)

(***************************************************************************)
(* backfill_discogs_data.py: update_records and dry_run_comparison over    *)
(* the records selected when the run starts.                               *)
(***************************************************************************)
\* records handed to one run of the script
MaxRecords == 3

\* {**base, **over}
Merge(base, over) ==
    [k \in DOMAIN base \cup DOMAIN over |->
        IF k \in DOMAIN over THEN over[k] ELSE base[k]]

\* d once d.pop(key, None) has taken key out of it
Pop(d, key) == [k \in DOMAIN d \ {key} |-> d[k]]

\* bool(v) for a column value that is None or a str
Truthy(v) == v \notin {NoneVal, ""}

\* datetime.utcnow().isoformat() of the run
Now == "now"

\* what the user stored with record i: the barcode is a scanned one, None
\* or empty
StoredBarcode(i) ==
    CASE i % 3 = 1 -> "7350000000011"
      [] i % 3 = 2 -> NoneVal
      [] OTHER     -> ""

StoredAddedFrom(i) == IF i % 2 = 1 THEN "barcode" ELSE "manual"

\* the row of record i before the run
StoredRecord(i) ==
    [id                  |-> i,
     user_id             |-> UserId,
     current_release_url |-> ReleaseUrl("200"),
     custom_values_cache |-> [kjopt |-> "Kjopt", rating |-> i],
     added_from          |-> StoredAddedFrom(i),
     created_at          |-> <<"2024-01-01", i>>,
     musicians           |-> get_all_credits(<<[name |-> NameB, role |-> Whistle]>>),
     barcode             |-> StoredBarcode(i),
     year                |-> "1999",
     label               |-> "Old Label",
     updated_at          |-> "then"]

\* the contribution an earlier sync left for record i
StaleRow(i) ==
    [record_id |-> i, user_id |-> UserId, contributor_id |-> 1,
     category_id |-> "cat-perc", roles |-> <<Stale>>, instruments |-> <<>>]

\* the credits Discogs may hold for the main release of a record
FreshCredits ==
    { <<>>,
      <<[name |-> NameA, role |-> Producer \o CommaSpace \o Drums]>>,
      <<[name |-> NameA, role |-> Drums],
        [name |-> NameB, role |-> MixedBy \o <<" ">> \o Tracks37]>> }

\* format_release_data(release, added_from) for each of them
Formatted ==
    [c \in FreshCredits |->
        format_release_data(FullRelease, FullMaster,
                            [FullMain EXCEPT !.credits = c], "none")]

FormattedOrder == [c \in FreshCredits |-> ItemsOrder(c)]

\* fetch_fresh_discogs_data(release_url, added_from) when Discogs answers
\* with a release whose main release carries the credits c: the dict of
\* format_release_data, which has 'barcode': None and 'added_from'
fetch_fresh_discogs_data(c, added_from) ==
    Merge(Formatted[c], [barcode |-> NoneVal, added_from |-> added_from])

\* updated_data without the  if record.get('barcode')  block: the barcode
\* of the fetched dict is written
updated_dataFreshBarcode(record, fresh) ==
    LET merged == Merge(fresh,
                        [custom_values_cache |-> record.custom_values_cache,
                         added_from          |-> record.added_from,
                         created_at          |-> record.created_at,
                         musicians           |-> record.musicians])
    IN  Merge(merged, [updated_at |-> Now])

\* updated_data as update_records builds it from the fetched dict, already
\* without 'musicians', and the record
updated_data(record, fresh) ==
    LET merged == Merge(fresh,
                        [custom_values_cache |-> record.custom_values_cache,
                         added_from          |-> record.added_from,
                         created_at          |-> record.created_at,
                         musicians           |-> record.musicians])
        with_barcode == IF Truthy(record.barcode)
                        THEN Merge(merged, [barcode |-> record.barcode])
                        ELSE merged
    IN  Merge(with_barcode, [updated_at |-> Now])

\* compare_values(old_val, new_val) for two values that are None or a str
compare_values(old_val, new_val) ==
    IF old_val = new_val THEN <<"unchanged">>
    ELSE IF old_val = NoneVal THEN <<"NEW", new_val>>
    ELSE IF new_val = NoneVal THEN <<"REMOVED", old_val>>
    ELSE <<"CHANGED", old_val, new_val>>

\* the row dry_run_comparison collects for a record
comparison(record, fresh) ==
    [record_id               |-> record.id,
     year_comparison         |-> compare_values(record.year, fresh.year),
     label_comparison        |-> compare_values(record.label, fresh.label),
     custom_values_PRESERVED |-> record.custom_values_cache,
     added_from_PRESERVED    |-> record.added_from,
     barcode_PRESERVED       |-> record.barcode]

InitBackfill ==
    /\ IdleParser
    /\ IdleFormat
    /\ IdleCategorizer
    /\ IdleClassifier
    /\ IdleRest
    /\ IdleMigrate
    /\ musicians_data = EmptyDict
    /\ items_order = <<>>
    /\ runs = 0
    /\ raised = {}
    /\ result = NoResult
    /\ contributors = <<[id |-> 1, name |-> NameA]>>
    /\ \E n \in 1..MaxRecords :
         /\ vinyl_records = [i \in 1..n |-> StoredRecord(i)]
         /\ records = [i \in 1..n |-> StoredRecord(i)]
         /\ contributions = [i \in 1..n |-> StaleRow(i)]
         /\ discogs \in [1..n -> FreshCredits]
    /\ bpc \in {"fetch", "dry_fetch"}
    /\ idx = 1
    /\ fresh_data = NoneDict
    /\ updated_count = 0
    /\ fetched = {}
    /\ comparison_data = <<>>
    /\ restarts = <<>>
    /\ swallowed = {}

\* fresh_data = fetch_fresh_discogs_data(record['current_release_url'],
\* record['added_from']): Discogs answers, or format_release_data caught an
\* exception and returned None, or the call raises
FetchFresh ==
    /\ bpc = "fetch"
    /\ fetched' = fetched \cup {records[idx].id}
    /\ \/ LET c == discogs[records[idx].id]
          IN  /\ fresh_data' = fetch_fresh_discogs_data(c, records[idx].added_from)
              /\ items_order' = FormattedOrder[c]
              /\ bpc' = "update"
       \/ /\ fresh_data' = NoneDict
          /\ items_order' = <<>>
          /\ bpc' = "update"
       \/ /\ bpc' = "raised"
          /\ UNCHANGED <<fresh_data, items_order>>
    /\ UNCHANGED <<records, idx, updated_count, vinyl_records, comparison_data, discogs, restarts, swallowed>>
    /\ UNCHANGED <<musicians_data, contributors, contributions, runs, raised, result>>
    /\ UNCHANGED <<parserVars, formatVars, categorizerVars, classifierVars, migrateVars, restVars>>

\* the update of the row with an  except: continue  around it: a failure
\* is passed over and the loop goes on with the next record
UpdateRowContinues ==
    /\ bpc = "update"
    /\ IF fresh_data = NoneDict
       THEN /\ bpc' = "raised"
            /\ UNCHANGED <<musicians_data, vinyl_records, idx>>
       ELSE /\ musicians_data' = fresh_data.musicians
            /\ \/ /\ vinyl_records' =
                        [vinyl_records EXCEPT ![records[idx].id] =
                            Merge(@, updated_data(records[idx],
                                                  Pop(fresh_data, "musicians")))]
                  /\ bpc' = "delete"
                  /\ UNCHANGED idx
               \/ /\ bpc' = IF idx = Len(records) THEN "finished" ELSE "fetch"
                  /\ idx' = idx + 1
                  /\ UNCHANGED vinyl_records
    /\ UNCHANGED <<records, fresh_data, updated_count, fetched, comparison_data, discogs, restarts, swallowed>>
    /\ UNCHANGED <<items_order, contributors, contributions, runs, raised, result>>
    /\ UNCHANGED <<parserVars, formatVars, categorizerVars, classifierVars, migrateVars, restVars>>

\* musicians_data = fresh_data.pop('musicians', None), which raises on
\* None, then the update of the record's row, which may raise
UpdateRow ==
    /\ bpc = "update"
    /\ IF fresh_data = NoneDict
       THEN /\ bpc' = "raised"
            /\ UNCHANGED <<musicians_data, vinyl_records>>
       ELSE /\ musicians_data' = fresh_data.musicians
            /\ \/ /\ vinyl_records' =
                        [vinyl_records EXCEPT ![records[idx].id] =
                            Merge(@, updated_data(records[idx],
                                                  Pop(fresh_data, "musicians")))]
                  /\ bpc' = "delete"
               \/ /\ bpc' = "raised"
                  /\ UNCHANGED vinyl_records
    /\ UNCHANGED <<records, idx, fresh_data, updated_count, fetched, comparison_data, discogs, restarts, swallowed>>
    /\ UNCHANGED <<items_order, contributors, contributions, runs, raised, result>>
    /\ UNCHANGED <<parserVars, formatVars, categorizerVars, classifierVars, migrateVars, restVars>>

\* the delete of the record's contributions, which may raise
DeleteContributions ==
    /\ bpc = "delete"
    /\ \/ /\ contributions' =
                SelectSeq(contributions,
                          LAMBDA r : ~(/\ r.record_id = records[idx].id
                                       /\ r.user_id = records[idx].user_id))
          /\ bpc' = "insert"
       \/ /\ bpc' = "raised"
          /\ UNCHANGED contributions
    /\ UNCHANGED <<records, idx, fresh_data, updated_count, vinyl_records,
                   fetched, comparison_data, discogs, restarts, swallowed>>
    /\ UNCHANGED <<musicians_data, items_order, contributors, runs, raised, result>>
    /\ UNCHANGED <<parserVars, formatVars, categorizerVars, classifierVars, migrateVars, restVars>>

\* insert_contributions_relational(client=supabase, record_id=record['id'],
\* user_id=record['user_id'], musicians_data=musicians_data); what it
\* returns is dropped
RepopulateContributions ==
    /\ bpc = "insert"
    /\ LET visited == Visited(musicians_data, items_order)
       IN  \E fails \in FailPlans(Len(visited)) :
           LET st == insert_contributions_relational(contributors, contributions,
                         records[idx].id, records[idx].user_id,
                         musicians_data, visited, fails)
           IN  /\ contributors' = st.contributors
               /\ contributions' = st.contributions
               /\ swallowed' = IF fails = {} THEN swallowed ELSE swallowed \cup {idx}
    /\ bpc' = "count"
    /\ UNCHANGED <<records, idx, fresh_data, updated_count, vinyl_records,
                   fetched, comparison_data, discogs, restarts>>
    /\ UNCHANGED <<musicians_data, items_order, runs, raised, result>>
    /\ UNCHANGED <<parserVars, formatVars, categorizerVars, classifierVars, migrateVars, restVars>>

\* updated_count += 1 and the next turn of the loop
CountUpdated ==
    /\ bpc = "count"
    /\ updated_count' = updated_count + 1
    /\ idx' = idx + 1
    /\ bpc' = IF idx = Len(records) THEN "finished" ELSE "fetch"
    /\ UNCHANGED <<records, fresh_data, vinyl_records, fetched, comparison_data, discogs, restarts, swallowed>>
    /\ UNCHANGED projectorVars
    /\ UNCHANGED <<parserVars, formatVars, categorizerVars, classifierVars, migrateVars, restVars>>

\* one turn of the loop of dry_run_comparison: the fetch and the row for
\* the CSV, or the exception raised again
DryRunRecord ==
    /\ bpc = "dry_fetch"
    /\ fetched' = fetched \cup {records[idx].id}
    /\ \/ LET c == discogs[records[idx].id]
          IN  /\ fresh_data' = fetch_fresh_discogs_data(c, records[idx].added_from)
              /\ comparison_data' =
                     Append(comparison_data, comparison(records[idx], fresh_data'))
              /\ idx' = idx + 1
              /\ bpc' = IF idx = Len(records) THEN "dry_finished" ELSE "dry_fetch"
       \/ /\ bpc' = "dry_raised"
          /\ UNCHANGED <<fresh_data, comparison_data, idx>>
    /\ UNCHANGED <<records, updated_count, vinyl_records, discogs, restarts, swallowed>>
    /\ UNCHANGED projectorVars
    /\ UNCHANGED <<parserVars, formatVars, categorizerVars, classifierVars, migrateVars, restVars>>

NextBackfill ==
    \/ FetchFresh
    \/ UpdateRow
    \/ DeleteContributions
    \/ RepopulateContributions
    \/ CountUpdated
    \/ DryRunRecord

SpecBackfill == InitBackfill /\ [][NextBackfill]_vars

(***************************************************************************)
(* A run of update_records that ends early, by an exception or because the *)
(* process is stopped, and the script started again, once, over the same   *)
(* records.                                                                *)
(***************************************************************************)
\* records handed to a run that may be started again
MaxRestartRecords == 2

\* where a stopped process was: before one of the steps of the loop body,
\* or inside insert_contributions_relational
StoppedBefore ==
    [step \in {"fetch", "update", "delete", "insert", "count"} |->
        CASE step = "fetch"  -> "stopped before fetch"
          [] step = "update" -> "stopped before update"
          [] step = "delete" -> "stopped before delete"
          [] step = "insert" -> "stopped before insert"
          [] OTHER           -> "stopped before count"]

EndedEarly ==
    {"raised", "stopped in insert"} \cup {StoppedBefore[step] : step \in DOMAIN StoppedBefore}

InitRestart ==
    /\ InitBackfill
    /\ bpc = "fetch"
    /\ Len(records) <= MaxRestartRecords

\* the process is stopped between two steps of the loop body
Interrupt ==
    /\ bpc \in DOMAIN StoppedBefore
    /\ restarts = <<>>
    /\ bpc' = StoppedBefore[bpc]
    /\ UNCHANGED <<records, idx, fresh_data, updated_count, vinyl_records,
                   fetched, comparison_data, discogs, restarts, swallowed>>
    /\ UNCHANGED projectorVars
    /\ UNCHANGED <<parserVars, formatVars, categorizerVars, classifierVars, migrateVars, restVars>>

\* the process is stopped inside insert_contributions_relational: after the
\* first m credits, or after the contributor upsert of the next one
InterruptInsert ==
    /\ bpc = "insert"
    /\ restarts = <<>>
    /\ LET visited == Visited(musicians_data, items_order)
       IN  \E m \in 1..Len(visited) : \E whole \in BOOLEAN :
           LET st == insert_contributions_relational(contributors, contributions,
                         records[idx].id, records[idx].user_id, musicians_data,
                         SubSeq(visited, 1, m),
                         IF whole THEN {} ELSE {<<m, "contribution">>})
           IN  /\ contributors' = st.contributors
               /\ contributions' = st.contributions
    /\ bpc' = "stopped in insert"
    /\ UNCHANGED <<records, idx, fresh_data, updated_count, vinyl_records,
                   fetched, comparison_data, discogs, restarts, swallowed>>
    /\ UNCHANGED <<musicians_data, items_order, runs, raised, result>>
    /\ UNCHANGED <<parserVars, formatVars, categorizerVars, classifierVars, migrateVars, restVars>>

\* the script started again where the interrupted record is passed over
RerunSkipsInterrupted ==
    /\ bpc \in EndedEarly
    /\ restarts = <<>>
    /\ idx < Len(records)
    /\ restarts' = Append(restarts, <<bpc, idx>>)
    /\ records' = [i \in 1..Len(records) |-> vinyl_records[records[i].id]]
    /\ idx' = idx + 1
    /\ updated_count' = 0
    /\ fresh_data' = NoneDict
    /\ fetched' = {}
    /\ swallowed' = {}
    /\ bpc' = "fetch"
    /\ UNCHANGED <<vinyl_records, comparison_data, discogs>>
    /\ UNCHANGED projectorVars
    /\ UNCHANGED <<parserVars, formatVars, categorizerVars, classifierVars, migrateVars, restVars>>

\* the script started again: main selects the records anew and
\* update_records takes them from the first
Rerun ==
    /\ bpc \in EndedEarly
    /\ restarts = <<>>
    /\ restarts' = Append(restarts, <<bpc, idx>>)
    /\ records' = [i \in 1..Len(records) |-> vinyl_records[records[i].id]]
    /\ idx' = 1
    /\ updated_count' = 0
    /\ fresh_data' = NoneDict
    /\ fetched' = {}
    /\ swallowed' = {}
    /\ bpc' = "fetch"
    /\ UNCHANGED <<vinyl_records, comparison_data, discogs>>
    /\ UNCHANGED projectorVars
    /\ UNCHANGED <<parserVars, formatVars, categorizerVars, classifierVars, migrateVars, restVars>>

NextRestart ==
    \/ FetchFresh
    \/ UpdateRow
    \/ DeleteContributions
    \/ RepopulateContributions
    \/ CountUpdated
    \/ Interrupt
    \/ InterruptInsert
    \/ Rerun

SpecRestart == InitRestart /\ [][NextRestart]_vars

(***************************************************************************)
(* migrate_to_relational_credits.py: migrate_record_credits, with its own  *)
(* parse_credit_string and categorize_roles.                               *)
(***************************************************************************)
\* The ways  ^(.+?)\s*\((.+)\)$  can match s: <<i, p>> where group 1 is
\* s[1..i], s[i+1..p-1] is the \s* run, s[p] is the "(" and group 2 is
\* s[p+1..Len(s)-1], non-empty
MigrateReMatches(s) ==
    LET n     == Len(s)
        opens == IF n = 0 \/ s[n] # ")" THEN {}
                 ELSE { p \in 2..(n - 2) : s[p] = "(" }
    IN  UNION { { <<i, p>> : i \in { x \in 1..(p - 1) :
                                       \A j \in (x + 1)..(p - 1) : IsSpace(s[j]) } } :
                p \in opens }

\* re.match with the lazy first group: the match whose group 1 is shortest
MigrateReMatch(s) ==
    LET ms == MigrateReMatches(s)
    IN  IF ms = {} THEN NoMatch
        ELSE CHOOSE m \in ms : \A o \in ms : o[1] >= m[1]

\* parse_credit_string of the migration script
migrate_parse_credit_string(cs) ==
    LET s == Strip(cs)
        m == MigrateReMatch(s)
    IN  IF m # NoMatch
        THEN LET name      == Strip(SubSeq(s, 1, m[1]))
                 roles_str == Strip(SubSeq(s, m[2] + 1, Len(s) - 1))
             IN  <<name, StripAll(Split(roles_str, ","))>>
        ELSE <<s, <<>>>>

\* role_keywords of the migration script
migrate_role_keywords ==
    { <<"b","y">>, <<"p","r","o","d","u","c","e","r">>,
      <<"e","n","g","i","n","e","e","r">>, <<"m","a","s","t","e","r","e","d">>,
      <<"m","i","x","e","d">>, <<"r","e","c","o","r","d","e","d">>,
      <<"w","r","i","t","t","e","n">>, <<"c","o","m","p","o","s","e","d">>,
      <<"a","r","r","a","n","g","e","d">>, <<"f","e","a","t","u","r","i","n","g">>,
      <<"p","e","r","f","o","r","m","e","r">> }

\* categorize_roles of the migration script
migrate_categorize_roles(roles) ==
    LET is_role == [i \in 1..Len(roles) |->
                       \E keyword \in migrate_role_keywords :
                           Contains(Lower(roles[i]), keyword)]
    IN  [pure_roles  |-> Pick(roles, is_role, TRUE),
         instruments |-> Pick(roles, is_role, FALSE)]

\* name, roles = parse_credit_string(credit_str)
\* pure_roles, instruments = categorize_roles(roles)      (lines 139-140)
MigrateShred(cs) ==
    LET parse == migrate_parse_credit_string(cs)
    IN  [name |-> parse[1], split |-> migrate_categorize_roles(parse[2])]

\* the credits the loops of migrate_record_credits visit (lines 127-138)
RECURSIVE MigrateVisited(_, _)
MigrateVisited(md, order) ==
    IF order = <<>> THEN <<>>
    ELSE LET main_category == Head(order)[1]
             sub_category  == Head(order)[2]
             category_id   == CategoryId(main_category, sub_category)
             credits       == md[main_category][sub_category]
         IN  (IF main_category = "_role_index" \/ category_id = NoneVal THEN <<>>
              ELSE [i \in 1..Len(credits) |-> <<category_id, MigrateShred(credits[i])>>])
                 \o MigrateVisited(md, Tail(order))

\* the body of  for credit_str in credits  (lines 139-184) for the k-th
\* credit; with dry_run it only counts; otherwise an upsert of the
\* contributor that raises is followed by a select, and the exception is
\* raised again when that finds no row (or raises itself)
MigrateCredit(st, record_id, user_id, category_id, shredded, k, dry, fails) ==
    LET name  == shredded.name
        split == shredded.split
        select_raised == <<k, "lookup">> \in fails
        upsert_raised == <<k, "contributor">> \in fails \/ select_raised
        ctrs  == IF upsert_raised THEN st.contributors
                 ELSE UpsertContributor(st.contributors, name)
        contributor_id == ContributorIdOf(ctrs, name)
        contribution_data ==
            [record_id |-> record_id, user_id |-> user_id,
             contributor_id |-> contributor_id, category_id |-> category_id,
             roles |-> split.pure_roles, instruments |-> split.instruments]
    IN  IF dry
        THEN [st EXCEPT !.contributors_added = @ + 1,
                        !.contributions_added = @ + 1]
        ELSE IF upsert_raised /\ (select_raised \/ contributor_id = 0)
        THEN [st EXCEPT !.error = TRUE]
        ELSE LET st1 == [st EXCEPT !.contributors = ctrs,
                                   !.contributors_added =
                                       IF upsert_raised THEN @ ELSE @ + 1]
             IN  IF <<k, "contribution">> \in fails
                 THEN st1
                 ELSE [st1 EXCEPT !.contributions = UpsertContribution(@, contribution_data),
                                  !.contributions_added = @ + 1]

RECURSIVE MigrateAll(_, _, _, _, _, _, _)
MigrateAll(st, record_id, user_id, visited, k, dry, fails) ==
    IF k > Len(visited) \/ st.error THEN st
    ELSE MigrateAll(MigrateCredit(st, record_id, user_id,
                                  visited[k][1], visited[k][2], k, dry, fails),
                    record_id, user_id, visited, k + 1, dry, fails)

\* the function with  if dry_run  never taken
migrate_record_creditsLive(ctrs, rows, rec, dry, fails) ==
    LET st0 == [contributors |-> ctrs, contributions |-> rows,
                contributors_added |-> 0, contributions_added |-> 0,
                error |-> FALSE]
        musicians_dict ==
            IF rec.kind = "list"
            THEN [h \in {"Other"} |-> [sh \in {"General"} |-> rec.musicians]]
            ELSE rec.musicians
        order == IF rec.kind = "list" THEN << <<"Other", "General">> >> ELSE rec.order
        done  == IF CategoriesFail \in fails THEN [st0 EXCEPT !.error = TRUE]
                 ELSE MigrateAll(st0, rec.id, rec.user_id,
                                 MigrateVisited(musicians_dict, order), 1, FALSE, fails)
        blank == [record_id |-> rec.id, contributors_added |-> 0,
                  contributions_added |-> 0, skipped |-> FALSE, error |-> NoneVal]
    IN  IF rec.kind = "falsy"
        THEN [contributors |-> ctrs, contributions |-> rows,
              stats |-> [blank EXCEPT !.skipped = TRUE]]
        ELSE IF rec.kind \notin {"list", "dict"}
        THEN [contributors |-> ctrs, contributions |-> rows,
              stats |-> [blank EXCEPT !.error = "Invalid musicians format"]]
        ELSE [contributors |-> done.contributors, contributions |-> done.contributions,
              stats |-> [blank EXCEPT !.contributors_added = done.contributors_added,
                                      !.contributions_added = done.contributions_added,
                                      !.error = IF done.error THEN "str(e)" ELSE NoneVal]]

\* migrate_record_credits(client, record, dry_run): the tables after the
\* call and the stats returned; rec.kind tells what record.get('musicians')
\* is (falsy, a list, a dict, something else) and rec.order the order of a
\* dict's items
migrate_record_credits(ctrs, rows, rec, dry, fails) ==
    LET st0 == [contributors |-> ctrs, contributions |-> rows,
                contributors_added |-> 0, contributions_added |-> 0,
                error |-> FALSE]
        musicians_dict ==
            IF rec.kind = "list"
            THEN [h \in {"Other"} |-> [sh \in {"General"} |-> rec.musicians]]
            ELSE rec.musicians
        order == IF rec.kind = "list" THEN << <<"Other", "General">> >> ELSE rec.order
        done  == IF CategoriesFail \in fails THEN [st0 EXCEPT !.error = TRUE]
                 ELSE MigrateAll(st0, rec.id, rec.user_id,
                                 MigrateVisited(musicians_dict, order), 1, dry, fails)
        blank == [record_id |-> rec.id, contributors_added |-> 0,
                  contributions_added |-> 0, skipped |-> FALSE, error |-> NoneVal]
    IN  IF rec.kind = "falsy"
        THEN [contributors |-> ctrs, contributions |-> rows,
              stats |-> [blank EXCEPT !.skipped = TRUE]]
        ELSE IF rec.kind \notin {"list", "dict"}
        THEN [contributors |-> ctrs, contributions |-> rows,
              stats |-> [blank EXCEPT !.error = "Invalid musicians format"]]
        ELSE [contributors |-> done.contributors, contributions |-> done.contributions,
              stats |-> [blank EXCEPT !.contributors_added = done.contributors_added,
                                      !.contributions_added = done.contributions_added,
                                      !.error = IF done.error THEN "str(e)" ELSE NoneVal]]

\* what record.get('musicians') may be: None, the old list of credit
\* strings, a str, or the dict of get_all_credits for two credit lists
MusiciansValues ==
    << [musicians |-> NoneVal, kind |-> "falsy", order |-> <<>>],
       [musicians |-> <<FormatCredit(NameA, Drums),
                        FormatCredit(NameB, Producer)>>,
        kind |-> "list", order |-> <<>>],
       [musicians |-> "[]", kind |-> "str", order |-> <<>>],
       LET cl == <<[name |-> NameA, role |-> Drums],
                   [name |-> NameA, role |-> Design \o CommaSpace \o Producer]>>
       IN  [musicians |-> get_all_credits(cl), kind |-> "dict",
            order |-> ItemsOrder(cl)],
       LET cl == <<[name |-> NameB, role |-> MixedBy \o <<" ">> \o Tracks37],
                   [name |-> NameB, role |-> Whistle]>>
       IN  [musicians |-> get_all_credits(cl), kind |-> "dict",
            order |-> ItemsOrder(cl)] >>

\* the row of record 1 with the value v in 'musicians'
RowWith(v) == [StoredRecord(1) EXCEPT !.musicians = v.musicians]

\* both scripts against the same tables: the backfill in its dry-run mode,
\* the migration of record 1 with or without --dry-run
InitDryRun ==
    /\ IdleParser
    /\ IdleFormat
    /\ IdleCategorizer
    /\ IdleClassifier
    /\ IdleRest
    /\ musicians_data = EmptyDict
    /\ items_order = <<>>
    /\ runs = 0
    /\ raised = {}
    /\ result = NoResult
    /\ contributors = <<[id |-> 1, name |-> NameA]>>
    /\ \E n \in 1..MaxRecords : \E k \in 1..Len(MusiciansValues) :
         LET v == MusiciansValues[k] IN
         /\ vinyl_records = [i \in 1..n |-> IF i = 1 THEN RowWith(v) ELSE StoredRecord(i)]
         /\ records = vinyl_records
         /\ contributions = [i \in 1..n |-> StaleRow(i)]
         /\ discogs \in [1..n -> FreshCredits]
         /\ migrating = [id |-> 1, user_id |-> UserId, musicians |-> v.musicians,
                         kind |-> v.kind, order |-> v.order]
    /\ bpc = "dry_fetch"
    /\ idx = 1
    /\ fresh_data = NoneDict
    /\ updated_count = 0
    /\ fetched = {}
    /\ comparison_data = <<>>
    /\ restarts = <<>>
    /\ swallowed = {}
    /\ mpc = "call"
    /\ dry_run \in BOOLEAN
    /\ stats = NoStats

\* stats = migrate_record_credits(client, record, dry_run=args.dry_run)
MigrateRecordCredits ==
    /\ mpc = "call"
    /\ \E fails \in FailPlans(MaxProjected) :
         LET out == migrate_record_credits(contributors, contributions,
                                           migrating, dry_run, fails)
         IN  /\ contributors' = out.contributors
             /\ contributions' = out.contributions
             /\ stats' = out.stats
    /\ mpc' = "done"
    /\ UNCHANGED <<migrating, dry_run>>
    /\ UNCHANGED <<musicians_data, items_order, runs, raised, result>>
    /\ UNCHANGED <<parserVars, formatVars, categorizerVars, classifierVars, backfillVars, restVars>>

NextDryRun == DryRunRecord \/ MigrateRecordCredits

SpecDryRun == InitDryRun /\ [][NextDryRun]_vars

(***************************************************************************)
(* Parser harness: inputs drawn from bounded sets, then formatted and      *)
(* parsed.                                                                 *)
(***************************************************************************)
Alphabet == {"a", " ", "(", ")", ","}
NameAlphabet == {"a", " ", ","}

StringsOfLen(A, k) == [1..k -> A]

JoelRoss3 == <<"J","o","e","l"," ","R","o","s","s"," ","(","3",")">>
Performer == <<"P","e","r","f","o","r","m","e","r">>
Vibraphone == <<"V","i","b","r","a","p","h","o","n","e">>
JoelRossCredit == JoelRoss3 \o <<" ", "(">> \o Performer \o <<",", " ">>
                    \o Vibraphone \o <<")">>

ExampleCredits == {JoelRossCredit}

InitParser ==
    /\ IdleFormat
    /\ IdleProjector
    /\ IdleCategorizer
    /\ IdleClassifier
    /\ IdleRest
    /\ IdleBackfill
    /\ IdleMigrate
    /\ parsed = NotParsed
    /\ \/ /\ ppc = "raw"
          /\ fmt_name = NoName
          /\ fmt_roles = <<>>
          /\ \E k \in 0..MaxLen : credit_str \in StringsOfLen(Alphabet, k)
       \/ /\ ppc = "raw"
          /\ fmt_name = NoName
          /\ fmt_roles = <<>>
          /\ credit_str \in ExampleCredits
       \/ /\ ppc = "format"
          /\ credit_str = <<>>
          /\ \E l0 \in 0..MaxFmtLen : \E l1 \in 0..(MaxFmtLen - l0) :
               \E l2 \in 0..(MaxFmtLen - l0 - l1) :
                 /\ fmt_name \in StringsOfLen(NameAlphabet, l0)
                 /\ \E r1 \in StringsOfLen(Alphabet, l1) :
                      \E r2 \in StringsOfLen(Alphabet, l2) :
                        fmt_roles = <<r1, r2>>

\* format(name, [r1, r2]) = "name (r1, r2)"
Format ==
    /\ ppc = "format"
    /\ credit_str' = FormatCredit(fmt_name, JoinRoles(fmt_roles))
    /\ ppc' = "formatted"
    /\ UNCHANGED <<fmt_name, fmt_roles, parsed>>
    /\ UNCHANGED <<formatVars, projectorVars, categorizerVars, classifierVars, backfillVars, migrateVars, restVars>>

Parse ==
    /\ ppc \in {"raw", "formatted"}
    /\ parsed' = parse_credit_string(credit_str)
    /\ ppc' = "parsed"
    /\ UNCHANGED <<fmt_name, fmt_roles, credit_str>>
    /\ UNCHANGED <<formatVars, projectorVars, categorizerVars, classifierVars, backfillVars, migrateVars, restVars>>

NextParser == Format \/ Parse

SpecParser == InitParser /\ [][NextParser]_vars

(***************************************************************************)
(* categorize_roles harness: role lists of up to MaxRoles tokens.          *)
(***************************************************************************)
Ruby == <<"R","U","B","Y">>
Bass == <<"B","a","s","s">>
Conductor == <<"C","o","n","d","u","c","t","o","r">>

\* tokens with and without a keyword, one in upper case, one empty
RoleTokens == {Drums, Producer, MixedBy, Performer, Vibraphone, Ruby, Bass,
               Conductor, <<>>}

InitCategorizer ==
    /\ IdleParser
    /\ IdleFormat
    /\ IdleProjector
    /\ IdleClassifier
    /\ IdleRest
    /\ IdleBackfill
    /\ IdleMigrate
    /\ cpc = "call"
    /\ role_split = NotSplit
    /\ \E n \in 0..MaxRoles : \E rs \in [1..n -> RoleTokens] : roles_in = rs

\* one call categorize_roles(roles_in)
CategorizeRoles ==
    /\ cpc = "call"
    /\ role_split' = categorize_roles(roles_in)
    /\ cpc' = "done"
    /\ UNCHANGED roles_in
    /\ UNCHANGED <<parserVars, formatVars, projectorVars, classifierVars, backfillVars, migrateVars, restVars>>

NextCategorizer == CategorizeRoles

SpecCategorizer == InitCategorizer /\ [][NextCategorizer]_vars

(***************************************************************************)
(* Classifier harness: one role, in several spellings, filed by the        *)
(* lookup of get_all_credits.                                              *)
(***************************************************************************)
\* c.upper()
UpperChar == [c \in Chars |->
                IF \E i \in 1..Len(LowerCase) : LowerCase[i] = c
                THEN UpperCase[CHOOSE i \in 1..Len(LowerCase) : LowerCase[i] = c]
                ELSE c]

\* str.upper()
Upper(s) == [i \in 1..Len(s) |-> UpperChar[s[i]]]

\* the table entries as spelled on a release, a role that is no entry, and
\* composite roles
BaseRoles ==
    { Drums, Producer, MixedBy, Design, Whistle,
      Producer \o CommaSpace \o Drums,
      Design \o CommaSpace \o Producer,
      Whistle \o CommaSpace \o Whistle }

\* a role as is, in upper case and in lower case
CaseVariants(role) == {role, Upper(role), Lower(role)}

\* a role without a bracketed qualifier, with one after a space, with one
\* right behind it, and with surrounding whitespace
QualifierVariants(role) ==
    { role, role \o <<" ">> \o Tracks37, role \o Tracks37,
      <<" ">> \o role \o <<" ">> }

ClassifierRoles ==
    UNION { UNION { CaseVariants(q) : q \in QualifierVariants(r) } : r \in BaseRoles }

InitClassifier ==
    /\ IdleParser
    /\ IdleFormat
    /\ IdleProjector
    /\ IdleCategorizer
    /\ IdleBackfill
    /\ IdleMigrate
    /\ IdleRest
    /\ lpc = "call"
    /\ role_in \in ClassifierRoles
    /\ role_bucket = NotClassified

\* the lookup of one credit's role (lines 55-120 of get_all_credits)
Classify ==
    /\ lpc = "call"
    /\ role_bucket' = BucketOf(role_in)
    /\ lpc' = "done"
    /\ UNCHANGED role_in
    /\ UNCHANGED <<parserVars, formatVars, projectorVars, categorizerVars, backfillVars, migrateVars, restVars>>

NextClassifier == Classify

SpecClassifier == InitClassifier /\ [][NextClassifier]_vars

(***************************************************************************)
(* parse_contributors, barcode_scanner/data_processor.py.                  *)
(***************************************************************************)
MaxParts == 2

Digits == {"0", "1", "2", "3", "4", "5", "6", "7", "8", "9"}

\* re.sub(r'\s*\(\d+\)\s*$', '', name): a parenthesised number at the end,
\* with the whitespace around it, is cut off
ReSubTrailingNumber(name) ==
    LET e == Len(name) - TrailingSpaces(name)
        opens == { p \in 1..(e - 2) :
                     /\ name[p] = "("
                     /\ \A j \in (p + 1)..(e - 1) : name[j] \in Digits }
    IN  IF e < 3 \/ name[e] # ")" \/ opens = {} THEN name
        ELSE LET p == CHOOSE q \in opens : TRUE
                 head == SubSeq(name, 1, p - 1)
             IN  SubSeq(head, 1, Len(head) - TrailingSpaces(head))

\* clean_name = re.sub(r'\s*\(\d+\)\s*$', '', name).strip()
CleanName(name) == Strip(ReSubTrailingNumber(name))

\* the roles kept by  for role in roles: if role:
NonEmpty(roles) == SelectSeq(roles, LAMBDA r : r # <<>>)

\* the dict branch of the loop body (lines 57-78)
ParseContributorDict(contributor) ==
    LET all_parts  == contributor.roles \o contributor.instruments
        clean_name == CleanName(contributor.name)
    IN  [i \in 1..Len(all_parts) |->
            [musician |-> clean_name, role |-> all_parts[i]]]

\* the legacy string branch of the loop body (lines 79-98):
\* re.match(r'^(.+?)\s*\((.+)\)$', contributor)
ParseContributorStr(contributor) ==
    LET s == contributor.text
        m == MigrateReMatch(s)
    IN  IF m = NoMatch THEN <<>>
        ELSE LET name       == Strip(SubSeq(s, 1, m[1]))
                 roles_str  == Strip(SubSeq(s, m[2] + 1, Len(s) - 1))
                 clean_name == CleanName(name)
                 roles      == NonEmpty(StripAll(Split(roles_str, ",")))
             IN  [i \in 1..Len(roles) |->
                    [musician |-> clean_name, role |-> roles[i]]]

\* parsed_data after the loop over one contributor_list
RECURSIVE parse_contributors(_)
parse_contributors(contributor_list) ==
    IF contributor_list = <<>> THEN <<>>
    ELSE (IF Head(contributor_list).kind = "dict"
          THEN ParseContributorDict(Head(contributor_list))
          ELSE ParseContributorStr(Head(contributor_list)))
            \o parse_contributors(Tail(contributor_list))

NameA12 == NameA \o <<" ", "(", "1", "2", ")">>
NameAb == NameA \o <<" ", "(", "b", ")">>
DisplayNames == {JoelRoss3, SubSeq(JoelRoss3, 1, 9), NameA, NameA12, NameAb}
DisplayRoles == {Performer, Vibraphone, Drums}

\* the role lists of one contributor, at most MaxParts long
PartLists == UNION { [1..k -> DisplayRoles] : k \in 0..MaxParts }

\* one contributor of a bucket: a dict of the relational model with its
\* parts split between roles and instruments, or the legacy string
\* "name (part, part)"
InitDisplay ==
    /\ IdleParser
    /\ IdleFormat
    /\ IdleProjector
    /\ IdleCategorizer
    /\ IdleClassifier
    /\ IdleConcurrent
    /\ IdleRequest
    /\ IdleBackfill
    /\ IdleMigrate
    /\ dpc = "call"
    /\ parsed_data = NotParsedData
    /\ \E name \in DisplayNames, parts \in PartLists :
         \/ \E k \in 0..Len(parts) :
              contributor_in = [kind |-> "dict", name |-> name,
                                roles |-> SubSeq(parts, 1, k),
                                instruments |-> SubSeq(parts, k + 1, Len(parts))]
         \/ contributor_in = [kind |-> "str",
                              text |-> FormatCredit(name, JoinRoles(parts))]

\* parsed_data = parse_contributors({main_category: {sub_category:
\* [contributor]}}, main_artist)
ParseContributors ==
    /\ dpc = "call"
    /\ parsed_data' = parse_contributors(<<contributor_in>>)
    /\ dpc' = "done"
    /\ UNCHANGED contributor_in
    /\ UNCHANGED <<parserVars, formatVars, projectorVars, categorizerVars, classifierVars, backfillVars, migrateVars, concurrentVars, requestVars>>

NextDisplay == ParseContributors

SpecDisplay == InitDisplay /\ [][NextDisplay]_vars

(***************************************************************************)
(* Claims about parse_credit_string.                                       *)
(***************************************************************************)
\* index of the last occurrence of character c in s, 0 when there is none
LastIndexOf(s, c) ==
    IF \A i \in 1..Len(s) : s[i] # c THEN 0
    ELSE CHOOSE i \in 1..Len(s) : s[i] = c /\ \A j \in (i + 1)..Len(s) : s[j] # c

\* the trimmed string ends with a parenthesized group "(content)" whose
\* content is non-empty and free of parentheses, after at least one character
EndsWithGroup(s) ==
    LET n == Len(s)
        q == LastIndexOf(s, "(")
    IN  /\ n >= 1
        /\ s[n] = ")"
        /\ q >= 2
        /\ q + 1 <= n - 1
        /\ \A j \in (q + 1)..(n - 1) : s[j] # ")"

\* C1: whenever the trimmed credit string ends with a parenthesized group,
\* parse_credit_string returns everything before the LAST "(" (trimmed) as
\* the name and the comma-split, trimmed content of that last group as the
\* roles; in particular "Joel Ross (3) (Performer, Vibraphone)" parses to
\* name "Joel Ross (3)" and roles ["Performer", "Vibraphone"].
C1_LastGroupIsRoles ==
    ppc = "parsed" =>
        LET s == Strip(credit_str)
            q == LastIndexOf(s, "(")
        IN  /\ EndsWithGroup(s) =>
                parsed = << Strip(SubSeq(s, 1, q - 1)),
                            StripAll(Split(Strip(SubSeq(s, q + 1, Len(s) - 1)), ",")) >>
            /\ credit_str = JoelRossCredit =>
                parsed = <<JoelRoss3, <<Performer, Vibraphone>>>>

\* C1 witness: the disambiguated name has been parsed and kept its "(3)"
C1_Witness ==
    /\ ppc = "parsed"
    /\ credit_str = JoelRossCredit
    /\ parsed[1] = JoelRoss3
    /\ Len(parsed[2]) = 2

HasParen(s) == \E i \in 1..Len(s) : s[i] \in {"(", ")"}

\* a role token as a comma split followed by a trim produces it: no comma,
\* no surrounding whitespace; and no parenthesis
CleanToken(s) ==
    /\ Strip(s) = s
    /\ ~HasParen(s)
    /\ \A i \in 1..Len(s) : s[i] # ","

\* C2 as stated: for any name without parentheses and ANY role list
\* [r1, r2], parsing "name (r1, r2)" returns exactly (name, [r1, r2]).
C2_RoundTripAnyRoles ==
    (ppc = "parsed" /\ fmt_name # NoName) => parsed = <<fmt_name, fmt_roles>>

\* C2 amended: for any non-empty name without parentheses and without
\* surrounding whitespace, and any two role tokens free of commas,
\* parentheses and surrounding whitespace, parsing "name (r1, r2)" returns
\* exactly (name, [r1, r2]).
C2_RoundTripCleanTokens ==
    (/\ ppc = "parsed"
     /\ fmt_name # NoName
     /\ fmt_name # <<>>
     /\ Strip(fmt_name) = fmt_name
     /\ \A i \in 1..Len(fmt_roles) : CleanToken(fmt_roles[i]))
        => parsed = <<fmt_name, fmt_roles>>

\* C2 witness: a name with an inner space and comma round-trips with two
\* role tokens, one of them non-empty
C2_Witness ==
    /\ ppc = "parsed"
    /\ fmt_name = <<"a", ",", "a">>
    /\ fmt_roles = <<<<"a">>, <<>>>>
    /\ parsed = <<fmt_name, fmt_roles>>

\* t is s without its leading and trailing whitespace
IsTrimOf(t, s) ==
    /\ t = <<>> \/ (t[1] # " " /\ t[Len(t)] # " ")
    /\ \E i \in 0..(Len(s) - Len(t)) :
         /\ \A j \in 1..Len(t) : s[i + j] = t[j]
         /\ \A j \in 1..i : s[j] = " "
         /\ \A j \in (i + Len(t) + 1)..Len(s) : s[j] = " "

\* the string, whitespace aside, does not end with ")" or has no "(" at
\* all: it does not end with a parenthesized group
NoGroupAtEnd(s) ==
    \/ \A i \in 1..Len(s) : s[i] # "("
    \/ \A i \in 1..Len(s) : s[i] = " "
    \/ \E i \in 1..Len(s) :
         /\ s[i] \notin {" ", ")"}
         /\ \A j \in (i + 1)..Len(s) : s[j] = " "

\* C16: parse_credit_string always returns, and for a credit string that
\* does not end with a parenthesized group it returns the whole trimmed
\* string as the name with an empty role list.
C16_MalformedIsName ==
    ppc = "parsed" =>
        /\ parsed # NotParsed
        /\ Len(parsed) = 2
        /\ NoGroupAtEnd(credit_str) =>
             /\ IsTrimOf(parsed[1], credit_str)
             /\ parsed[2] = <<>>

\* C16 witness: " a(a " has an unclosed parenthesis and padding; it came
\* back as the name "a(a" without roles
C16_Witness ==
    /\ ppc = "parsed"
    /\ credit_str = <<" ", "a", "(", "a", " ">>
    /\ parsed = << <<"a", "(", "a">>, <<>> >>

(***************************************************************************)
(* Claims about get_all_credits and the credit source selection of         *)
(* format_release_data (SpecAggregator).                                   *)
(***************************************************************************)
SeqToSet(s) == {s[i] : i \in 1..Len(s)}

\* every credit of a release: release-level and per-track
CreditSetOf(rel) ==
    SeqToSet(rel.credits) \cup UNION {SeqToSet(tr.credits) : tr \in SeqToSet(rel.tracklist)}

FormattedSet(credits) == {FormatCredit(c.name, c.role) : c \in credits}

\* the (heading, subheading) pairs present
Buckets(categorized) ==
    UNION { {<<h, sh>> : sh \in DOMAIN categorized[h]} : h \in DOMAIN categorized }

\* every formatted string of a CategorizedCredits value
Entries(categorized) ==
    UNION { SeqToSet(categorized[b[1]][b[2]]) : b \in Buckets(categorized) }

InBucket(categorized, h, sh, f) ==
    /\ h \in DOMAIN categorized
    /\ sh \in DOMAIN categorized[h]
    /\ f \in SeqToSet(categorized[h][sh])

\* the main release was obtained and read
MainObtained ==
    release.has_master /\ master.has_main_release /\ fail = "none"

\* neither a master nor a main release reference: the else branch
NoMainReference ==
    ~release.has_master \/ fail = "master" \/ ~master.has_main_release

\* the credits the call categorizes, as the claims describe them
SelectedSet ==
    IF MainObtained
    THEN IF CreditSetOf(main_release) # {} THEN CreditSetOf(main_release)
         ELSE CreditSetOf(release)
    ELSE IF NoMainReference THEN CreditSetOf(release)
    ELSE {}

\* C3: when a main release exists, the categorized credits are exactly the
\* main release's (release-level plus per-track) whenever that set is
\* non-empty, and exactly the current release's only when it is empty;
\* no credit of the current release appears next to the main release's.
C3_AllOrNothing ==
    (fpc = "done" /\ MainObtained) =>
        /\ CreditSetOf(main_release) # {} =>
             Entries(data.musicians) = FormattedSet(CreditSetOf(main_release))
        /\ CreditSetOf(main_release) = {} =>
             Entries(data.musicians) = FormattedSet(CreditSetOf(release))

\* C3 witness: both releases have credits, the current release has one the
\* main release lacks, and it is absent from the output
C3_Witness ==
    /\ fpc = "done"
    /\ MainObtained
    /\ CreditSetOf(main_release) # {}
    /\ \E c \in CreditSetOf(release) :
         /\ c \notin CreditSetOf(main_release)
         /\ FormatCredit(c.name, c.role) \notin Entries(data.musicians)
    /\ Entries(data.musicians) # {}

\* the comma parts of the bracket-stripped role, trimmed and lower-cased
LowerParts(role) ==
    LET parts == Split(RoleForLookup(role), ",")
    IN  [i \in 1..Len(parts) |-> Lower(Strip(parts[i]))]

\* neither the bracket-stripped role nor any of its parts is a table key
Unclassifiable(role) ==
    /\ ~InRoleIndex(Lower(RoleForLookup(role)))
    /\ \A i \in 1..Len(LowerParts(role)) : ~InRoleIndex(LowerParts(role)[i])

\* C4: every credit of the selected source set has its formatted string
\* "Name (Role)" in some bucket of the output, and in ("Other", "General")
\* when neither its bracket-stripped role nor any comma part of it is a
\* key of the role table.
C4_NoCreditDropped ==
    fpc = "done" =>
        \A c \in SelectedSet :
            /\ FormatCredit(c.name, c.role) \in Entries(data.musicians)
            /\ Unclassifiable(c.role) =>
                 InBucket(data.musicians, "Other", "General",
                          FormatCredit(c.name, c.role))

\* C4 witness: an unclassifiable composite role sits in Other / General
\* beside a classified credit
C4_Witness ==
    /\ fpc = "done"
    /\ \E c \in SelectedSet :
         /\ Unclassifiable(c.role)
         /\ Len(LowerParts(c.role)) > 1
         /\ InBucket(data.musicians, "Other", "General", FormatCredit(c.name, c.role))
    /\ "Instruments" \in DOMAIN data.musicians

RECURSIVE SumLen(_, _)
SumLen(categorized, bs) ==
    IF bs = {} THEN 0
    ELSE LET b == CHOOSE x \in bs : TRUE
         IN  Len(categorized[b[1]][b[2]]) + SumLen(categorized, bs \ {b})

\* C5: in every returned CategorizedCredits each heading has a subheading,
\* each (heading, subheading) has an entry, the entries of a bucket are
\* in strictly increasing order (sorted, no duplicate), and there is one
\* entry per distinct (name, role) of the selected set: identical credits
\* collapse, different roles of one person stay separate.
C5_BucketsSortedUnique ==
    fpc = "done" =>
        /\ \A h \in DOMAIN data.musicians :
             /\ DOMAIN data.musicians[h] # {}
             /\ \A sh \in DOMAIN data.musicians[h] :
                  LET l == data.musicians[h][sh]
                  IN  /\ Len(l) >= 1
                      /\ \A i \in 1..(Len(l) - 1) : StrLess(l[i], l[i + 1])
        /\ SumLen(data.musicians, Buckets(data.musicians)) = Cardinality(SelectedSet)

\* C5 witness: the same credit on two tracks gave one entry, next to
\* another role of the same person
C5_Witness ==
    /\ fpc = "done"
    /\ MainObtained
    /\ Len(main_release.tracklist) = 2
    /\ main_release.tracklist[1].credits # <<>>
    /\ main_release.tracklist[1].credits = main_release.tracklist[2].credits
    /\ SumLen(data.musicians, Buckets(data.musicians)) = 1

\* indices of the parts that are table keys / that are Instruments keys
MatchingParts(role) ==
    {i \in 1..Len(LowerParts(role)) : InRoleIndex(LowerParts(role)[i])}
InstrumentParts(role) ==
    {i \in MatchingParts(role) : RoleInfo(LowerParts(role)[i]).heading = "Instruments"}
Least(S) == CHOOSE i \in S : \A j \in S : i <= j

\* the category the claim gives a role whose whole string is no table key
CompositeBucket(role) ==
    IF InstrumentParts(role) # {}
    THEN LET e == RoleInfo(LowerParts(role)[Least(InstrumentParts(role))])
         IN  <<e.heading, e.subheading>>
    ELSE IF MatchingParts(role) # {}
    THEN LET e == RoleInfo(LowerParts(role)[Least(MatchingParts(role))])
         IN  <<e.heading, e.subheading>>
    ELSE <<"Other", "General">>

\* C6: a role whose bracket-stripped string is no table key is filed under
\* the category of its first comma part with heading "Instruments" if there
\* is one, otherwise of its first part that is a table key, otherwise
\* under Other / General.
C6_CompositeRole ==
    fpc = "done" =>
        \A c \in SelectedSet :
            ~InRoleIndex(Lower(RoleForLookup(c.role))) =>
                InBucket(data.musicians, CompositeBucket(c.role)[1],
                         CompositeBucket(c.role)[2], FormatCredit(c.name, c.role))

\* C6 witness: "Producer, Drums" went to Instruments although Producer
\* matched first, and "Design, Producer" went to its first part's category
C6_Witness ==
    /\ fpc = "done"
    /\ \E c \in SelectedSet :
         /\ InstrumentParts(c.role) # {}
         /\ Least(MatchingParts(c.role)) < Least(InstrumentParts(c.role))
         /\ InBucket(data.musicians, "Instruments", "Percussion",
                     FormatCredit(c.name, c.role))
    /\ \E c \in SelectedSet :
         /\ InstrumentParts(c.role) = {}
         /\ Cardinality(MatchingParts(c.role)) > 1
         /\ InBucket(data.musicians, "Visual", "Design", FormatCredit(c.name, c.role))

\* the credit of the end-to-end scenario and its formatted string
MakayaCredit ==
    [name |-> MakayaMcCraven,
     role |-> Drums \o CommaSpace \o Producer \o CommaSpace \o MixedBy]
MakayaFormatted == FormatCredit(MakayaCredit.name, MakayaCredit.role)

\* C14 as stated: for the single credit Makaya McCraven (Drums, Producer,
\* Mixed By) the CategorizedCredits holds the formatted string under both
\* (Instruments, Percussion) and (Credits, Production).
C14_UnderBothCategories ==
    (fpc = "done" /\ SelectedSet = {MakayaCredit}) =>
        /\ InBucket(data.musicians, "Instruments", "Percussion", MakayaFormatted)
        /\ InBucket(data.musicians, "Credits", "Production", MakayaFormatted)

\* C14 amended: for that single credit the CategorizedCredits holds the
\* formatted string under (Instruments, Percussion) and under no other
\* (heading, subheading).
C14_UnderInstrumentsOnly ==
    (fpc = "done" /\ SelectedSet = {MakayaCredit}) =>
        /\ InBucket(data.musicians, "Instruments", "Percussion", MakayaFormatted)
        /\ Buckets(data.musicians) = {<<"Instruments", "Percussion">>}
        /\ data.musicians["Instruments"]["Percussion"] = <<MakayaFormatted>>

\* C14 witness: the scenario's credit was the only one categorized
C14_Witness ==
    /\ fpc = "done"
    /\ SelectedSet = {MakayaCredit}
    /\ "Instruments" \in DOMAIN data.musicians
    /\ "Credits" \notin DOMAIN data.musicians

(***************************************************************************)
(* Claims about the reconciled fields of format_release_data               *)
(* (SpecReconciler).                                                       *)
(***************************************************************************)
MasterObtained == release.has_master /\ fail # "master"

\* the lists of the editions that were obtained, in priority order
GenreSources ==
    (IF MasterObtained THEN <<master.genres>> ELSE <<>>)
      \o (IF MainObtained THEN <<main_release.genres>> ELSE <<>>)
      \o <<release.genres>>
StyleSources ==
    (IF MasterObtained THEN <<master.styles>> ELSE <<>>)
      \o (IF MainObtained THEN <<main_release.styles>> ELSE <<>>)
      \o <<release.styles>>

NonEmptyList(v) == v # <<>> /\ v # NoneList

\* value is the first non-empty list of sources, or empty/None if none is
IsFirstNonEmpty(value, sources) ==
    IF \E i \in 1..Len(sources) : NonEmptyList(sources[i])
    THEN value = sources[Least({i \in 1..Len(sources) : NonEmptyList(sources[i])})]
    ELSE ~NonEmptyList(value)

\* C7: the reconciled genres and styles are the first non-empty list in the
\* order master, original/main release, current release; an absent or
\* empty list at a higher priority does not block the fallback.
C7_GenresFirstNonEmpty ==
    fpc = "done" =>
        /\ IsFirstNonEmpty(data.genres, GenreSources)
        /\ IsFirstNonEmpty(data.styles, StyleSources)

\* C7 witness: master.genres = [], original.genres = ["Jazz"],
\* current.genres = ["Pop"] gave ["Jazz"]
C7_Witness ==
    /\ fpc = "done"
    /\ MainObtained
    /\ master.genres = <<>>
    /\ main_release.genres = <<"Jazz">>
    /\ release.genres = <<"Pop">>
    /\ data.genres = <<"Jazz">>

\* the priority original -> current of the claim: the main release's value
\* where it has one, the current release's where it has not
OriginalOrCurrent(main, rel) ==
    [id          |-> main.id,
     country     |-> IF main.country # NoneVal THEN main.country ELSE rel.country,
     label       |-> IF main.labels # <<>> THEN FirstLabel(main.labels).name
                     ELSE FirstLabel(rel.labels).name,
     catno       |-> IF main.labels # <<>> THEN FirstLabel(main.labels).catno
                     ELSE FirstLabel(rel.labels).catno,
     year        |-> IF main.year # NoneVal THEN main.year ELSE rel.year,
     released    |-> main.released,
     identifiers |-> main.identifiers]

\* C8 as stated: year, label, catalog number and country carry the
\* original/main release's value when it has one, and the current release's
\* value when the main release exists but has none and the current has one.
C8_OriginalThenCurrent ==
    (fpc = "done" /\ MainObtained) =>
        /\ data.year = OriginalOrCurrent(main_release, release).year
        /\ data.label = OriginalOrCurrent(main_release, release).label
        /\ data.original_catno = OriginalOrCurrent(main_release, release).catno
        /\ data.country = OriginalOrCurrent(main_release, release).country

\* C9: without a master, or with a master that has no main release
\* reference, the call returns a result whose original_* fields (year,
\* country, label, catalog number, identifiers) are the current release's
\* and whose original_release_id is current_release_id.
C9_CurrentStandsInAsOriginal ==
    (fpc = "done" /\ NoMainReference) =>
        /\ data # NotFormatted
        /\ data.original_release_id = release.id
        /\ data.original_release_id = data.current_release_id
        /\ data.original_release_url = data.current_release_url
        /\ data.year = release.year
        /\ data.country = release.country
        /\ data.label = (IF release.labels = <<>> THEN NoneVal ELSE release.labels[1].name)
        /\ data.original_catno =
              (IF release.labels = <<>> THEN NoneVal ELSE release.labels[1].catno)
        /\ data.original_identifiers = release.identifiers

\* C9 witness: a release without a master, with every field filled, came
\* out as its own original
C9_Witness ==
    /\ fpc = "done"
    /\ ~release.has_master
    /\ release.year = "2020"
    /\ release.labels # <<>>
    /\ release.identifiers # <<>>
    /\ data.original_release_id = "200"
    /\ data.year = "2020"
    /\ data.original_identifiers = release.identifiers

(***************************************************************************)
(* Claims about insert_contributions_relational (SpecProjector).           *)
(***************************************************************************)
\* the buckets of the input whose category has a row
KnownBuckets ==
    {b \in Buckets(musicians_data) : CategoryId(b[1], b[2]) # NoneVal}

\* the contributions rows of one (record, contributor, category) triple
RowsOf(record_id, contributor_id, category_id) ==
    {i \in 1..Len(contributions) :
        /\ contributions[i].record_id = record_id
        /\ contributions[i].contributor_id = contributor_id
        /\ contributions[i].category_id = category_id}

\* the contributors rows of one name
NamedRows(name) == {i \in 1..Len(contributors) : contributors[i].name = name}

\* C10: after any number of calls for the same record with the same
\* CategorizedCredits there is never more than one contributors row per
\* name nor more than one contributions row per (record, contributor,
\* category); and after a call in which no upsert raised, every credit under
\* a known category has exactly one contributor row and exactly one
\* contribution row, whose roles and instruments are those of a credit of
\* that contributor in that bucket of the input (replaced, not added to).
C10_ProjectorIdempotent ==
    /\ \A i, j \in 1..Len(contributors) :
         contributors[i].name = contributors[j].name => i = j
    /\ \A i, j \in 1..Len(contributions) :
         SameKey(contributions[i], contributions[j]) => i = j
    /\ (runs >= 1 /\ raised = {}) =>
         \A b \in KnownBuckets :
           \A f \in SeqToSet(musicians_data[b[1]][b[2]]) :
             LET name == parse_credit_string(f)[1]
             IN  /\ Cardinality(NamedRows(name)) = 1
                 /\ \A c \in NamedRows(name) :
                      LET rs == RowsOf(RecordId, contributors[c].id,
                                       CategoryId(b[1], b[2]))
                      IN  /\ Cardinality(rs) = 1
                          /\ \A r \in rs :
                               \E g \in SeqToSet(musicians_data[b[1]][b[2]]) :
                                 /\ parse_credit_string(g)[1] = name
                                 /\ contributions[r].roles =
                                      categorize_roles(parse_credit_string(g)[2]).pure_roles
                                 /\ contributions[r].instruments =
                                      categorize_roles(parse_credit_string(g)[2]).instruments

\* C10 witness: the second call has run over tables that held a stale row
\* for the triple; the row is still the only one and carries the new roles
C10_Witness ==
    /\ runs = 2
    /\ raised = {}
    /\ Len(contributions) >= 3
    /\ contributions[1].record_id = RecordId
    /\ contributions[1].roles # <<Stale>>
    /\ contributions[1].instruments = <<Drums>>
    /\ Cardinality(RowsOf(RecordId, 1, "cat-perc")) = 1
    /\ Len(contributors) = 2

\* the requests of the latest call that are upserts and raised
RaisedUpserts ==
    {f \in raised : f[2] \in {"contributor", "lookup", "contribution"}}

\* C11 as stated: when a contributor upsert or a contribution upsert raised
\* during a call of insert_contributions_relational, the failure reaches
\* the caller: the call does not report success.
C11_UpsertFailurePropagates ==
    (runs >= 1 /\ RaisedUpserts # {}) => result.success = FALSE

\* the buckets of the input whose category has no row
UnknownBuckets == Buckets(musicians_data) \ KnownBuckets

\* the tables held rows before the first call (the row of the other record
\* is never written by a call for RecordId)
PrePopulated ==
    \E i \in 1..Len(contributions) : contributions[i].record_id = OtherRecordId

\* the names of the credits filed under a category that has a row
KnownNames ==
    UNION { {parse_credit_string(f)[1] : f \in SeqToSet(musicians_data[b[1]][b[2]])} :
              b \in KnownBuckets }

\* C12: for the credits of a bucket whose (heading, subheading) has no
\* row in contribution_categories no contribution is written (every row
\* carries the id of an existing category) and no contributor is created
\* (every contributors row was there before or is the name of a credit
\* under a known category); and after a call in which nothing raised,
\* every credit of the other buckets has its contributor and contribution.
C12_UnknownCategorySkipped ==
    /\ \A i \in 1..Len(contributions) :
         \E cat \in contribution_categories : contributions[i].category_id = cat.id
    /\ \A i \in 1..Len(contributors) :
         \/ contributors[i].name \in KnownNames
         \/ PrePopulated /\ contributors[i] = [id |-> 1, name |-> NameA]
    /\ (runs >= 1 /\ raised = {} /\ UnknownBuckets # {}) =>
         \A b \in KnownBuckets :
           \A f \in SeqToSet(musicians_data[b[1]][b[2]]) :
             \E c \in 1..Len(contributors) :
               /\ contributors[c].name = parse_credit_string(f)[1]
               /\ RowsOf(RecordId, contributors[c].id, CategoryId(b[1], b[2])) # {}

\* C12 witness: the first bucket the loops reach has no category row, its
\* credit's contributor A was not created, and the credit of the bucket
\* after it was written
C12_Witness ==
    /\ runs = 1
    /\ raised = {}
    /\ Len(items_order) = 2
    /\ CategoryId(items_order[1][1], items_order[1][2]) = NoneVal
    /\ CategoryId(items_order[2][1], items_order[2][2]) # NoneVal
    /\ contributors = <<[id |-> 1, name |-> NameB]>>
    /\ Len(contributions) = 1
    /\ contributions[1].contributor_id = 1

(***************************************************************************)
(* Claims about categorize_roles (SpecCategorizer).                        *)
(***************************************************************************)
\* the keywords as the claim lists them
ListedKeywords ==
    { <<"b","y">>, <<"p","r","o","d","u","c","e","r">>,
      <<"e","n","g","i","n","e","e","r">>, <<"m","a","s","t","e","r","e","d">>,
      <<"m","i","x","e","d">>, <<"r","e","c","o","r","d","e","d">>,
      <<"w","r","i","t","t","e","n">>, <<"c","o","m","p","o","s","e","d">>,
      <<"a","r","r","a","n","g","e","d">>, <<"f","e","a","t","u","r","i","n","g">>,
      <<"p","e","r","f","o","r","m","e","r">>, <<"c","o","n","d","u","c","t","o","r">>,
      <<"l","e","a","d","e","r">>, <<"e","d","i","t","e","d">>,
      <<"o","v","e","r","d","u","b","b","e","d">> }

\* the lower-cased token has a listed keyword as a substring
HasListedKeyword(token) ==
    \E kw \in ListedKeywords :
      \E i \in 1..Len(token) : \E j \in i..Len(token) :
        SubSeq(Lower(token), i, j) = kw

\* C13: pure_roles is the subsequence of the tokens whose lower-cased text
\* contains a listed keyword and instruments the subsequence of the others,
\* both in the order of the input, so every token is in exactly one list.
C13_KeywordPartition ==
    cpc = "done" =>
        /\ role_split.pure_roles = SelectSeq(roles_in, HasListedKeyword)
        /\ role_split.instruments =
             SelectSeq(roles_in, LAMBDA r : ~HasListedKeyword(r))
        /\ Len(role_split.pure_roles) + Len(role_split.instruments) = Len(roles_in)

\* C13 witness: ["Drums", "Producer", "Mixed By"] gave instruments
\* ["Drums"] and roles ["Producer", "Mixed By"]
C13_Witness ==
    /\ cpc = "done"
    /\ roles_in = <<Drums, Producer, MixedBy>>
    /\ role_split.instruments = <<Drums>>
    /\ role_split.pure_roles = <<Producer, MixedBy>>

\* C15 as stated, for the contributors count: in every successful call,
\* contributors_added is the number of contributors rows the call created;
\* a contributor that existed before the call is not counted.
C15_CountsCreatedContributors ==
    [][(runs' = runs + 1 /\ result'.success) =>
          result'.contributors_added = Len(contributors') - Len(contributors)]_vars

(***************************************************************************)
(* Claims about the role lookup of get_all_credits (SpecClassifier).       *)
(***************************************************************************)
\* the normalized lookup key: bracketed qualifiers removed, trimmed,
\* lower-cased
LookupKey(role) == Lower(Strip(ReSubBrackets(role)))

\* C17: the (heading, subheading) of a role is that of every role with the
\* same normalized lookup key; in particular of its upper-case and
\* lower-case spellings and of the role followed by "[Tracks: 3,7]".
C17_DependsOnLookupKeyOnly ==
    lpc = "done" =>
        /\ \A other \in ClassifierRoles :
             LookupKey(other) = LookupKey(role_in) => BucketOf(other) = role_bucket
        /\ BucketOf(Upper(role_in)) = role_bucket
        /\ BucketOf(Lower(role_in)) = role_bucket
        /\ BucketOf(role_in \o <<" ">> \o Tracks37) = role_bucket

\* C17 witness: "MIXED BY [TRACKS: 3,7]" was filed under the category of
\* the table entry "mixed by"
C17_Witness ==
    /\ lpc = "done"
    /\ role_in = Upper(MixedBy \o <<" ">> \o Tracks37)
    /\ role_bucket = <<"Credits", "Production">>
    /\ BucketOf(MixedBy) = role_bucket


(***************************************************************************)
(* Claims about backfill_discogs_data.py.                                  *)
(***************************************************************************)
\* the contributions stored for the record at position j of records
ContributionsOf(j) ==
    SelectSeq(contributions, LAMBDA r : r.record_id = records[j].id)

\* the loop body ran to its end for the record at position j: its row was
\* written and its earlier contributions were deleted
LoopBodyDone(j) ==
    /\ vinyl_records[records[j].id].updated_at = Now
    /\ \A i \in 1..Len(contributions) : contributions[i] # StaleRow(records[j].id)

\* the run has not reached the record at position j
Untouched(j) ==
    /\ records[j].id \notin fetched
    /\ vinyl_records[records[j].id] = records[j]
    /\ ContributionsOf(j) = <<StaleRow(records[j].id)>>

UserDataKept(old, new) ==
    /\ new.custom_values_cache = old.custom_values_cache
    /\ new.added_from = old.added_from
    /\ new.created_at = old.created_at
    /\ new.musicians = old.musicians
    /\ old.barcode \notin {NoneVal, ""} => new.barcode = old.barcode

\* C20: no step of a run of update_records changes the stored
\* custom_values_cache, added_from, created_at or musicians of a record, nor
\* its barcode when that is not empty, whatever Discogs returned.
C20_UserDataPreserved ==
    [][\A id \in DOMAIN vinyl_records :
          UserDataKept(vinyl_records[id], vinyl_records'[id])]_vars

\* C20 witness: the row of the first record, which has a barcode, was
\* rewritten with Discogs data that differ from the stored ones and carry
\* 'barcode': None and credits of their own
C20_Witness ==
    /\ bpc = "delete"
    /\ idx = 1
    /\ vinyl_records[1].updated_at = Now
    /\ vinyl_records[1].year # records[1].year
    /\ fresh_data.barcode = NoneVal
    /\ fresh_data.musicians # records[1].musicians
    /\ vinyl_records[1].barcode = "7350000000011"
    /\ UserDataKept(records[1], vinyl_records[1])

\* C19: a step of dry_run_comparison, and a call of migrate_record_credits
\* with dry_run set, leave the tables vinyl_records, contributors and
\* contributions as they were.
C19_DryRunsDoNotWrite ==
    [][(bpc = "dry_fetch" /\ bpc' # bpc) \/ (dry_run /\ mpc = "call" /\ mpc' = "done")
          => UNCHANGED <<vinyl_records, contributors, contributions>>]_vars

\* C19 witness: the dry run of the backfill went through three records and
\* the dry run of the migration counted two credits of record 1, B, who has
\* no row in contributors, among them, with the tables as they were before
C19_Witness ==
    /\ bpc = "dry_finished"
    /\ Len(comparison_data) = 3
    /\ mpc = "done"
    /\ dry_run
    /\ stats.contributors_added = 2
    /\ stats.contributions_added = 2
    /\ contributors = <<[id |-> 1, name |-> NameA]>>
    /\ contributions = [i \in 1..3 |-> StaleRow(i)]
    /\ vinyl_records = records

\* the tables after update_records went through the records from position i
\* on without a request raising, starting from the tables given
RECURSIVE UninterruptedRun(_, _, _)
UninterruptedRun(ctrs, rows, i) ==
    IF i > Len(records) THEN [contributors |-> ctrs, contributions |-> rows]
    ELSE LET c    == discogs[records[i].id]
             md   == Formatted[c].musicians
             kept == SelectSeq(rows, LAMBDA r : r.record_id # records[i].id)
             st   == insert_contributions_relational(ctrs, kept, records[i].id,
                         records[i].user_id, md, Visited(md, FormattedOrder[c]), {})
         IN  UninterruptedRun(st.contributors, st.contributions, i + 1)

\* the contributions of a pair of tables with the contributor's name in
\* the place of its id
NamedContributions(ctrs, rows) ==
    { [record_id   |-> rows[i].record_id,
       name        |-> ctrs[CHOOSE c \in 1..Len(ctrs) :
                              ctrs[c].id = rows[i].contributor_id].name,
       category_id |-> rows[i].category_id,
       roles       |-> rows[i].roles,
       instruments |-> rows[i].instruments] : i \in 1..Len(rows) }

NamesOf(ctrs) == { ctrs[i].name : i \in 1..Len(ctrs) }

\* C21: when a run of update_records ended early at any point and the
\* script, started again over the same records, finished without a request
\* raising, the contributors and the contributions are those of one
\* uninterrupted run: the same names, each once, and the same contribution
\* per record, contributor and category, each once.
C21_RestartGivesSameRows ==
    (bpc = "finished" /\ restarts # <<>> /\ swallowed = {}) =>
        LET once == UninterruptedRun(<<[id |-> 1, name |-> NameA]>>,
                                     [i \in 1..Len(records) |-> StaleRow(i)], 1)
        IN  /\ NamesOf(contributors) = NamesOf(once.contributors)
            /\ Len(contributors) = Len(once.contributors)
            /\ NamedContributions(contributors, contributions)
                 = NamedContributions(once.contributors, once.contributions)
            /\ Len(contributions) = Len(once.contributions)

\* C21 witness: the first run was stopped at the second record between the
\* delete of its contributions and the insert of the fresh ones, and the
\* second run finished and left contributions for that record
C21_Witness ==
    /\ bpc = "finished"
    /\ restarts = << <<"stopped before insert", 2>> >>
    /\ swallowed = {}
    /\ Len(records) = 2
    /\ ContributionsOf(2) # <<>>
    /\ \A i \in 1..Len(contributions) : contributions[i].roles # <<Stale>>

\* the contributions insert_contributions_relational writes for the record
\* at position j from the credits Discogs holds for it when no request
\* raises, by contributor name
FreshContributions(j) ==
    LET c  == discogs[records[j].id]
        md == Formatted[c].musicians
        st == insert_contributions_relational(contributors, <<>>, records[j].id,
                  records[j].user_id, md, Visited(md, FormattedOrder[c]), {})
    IN  NamedContributions(st.contributors, st.contributions)

\* C27: every record update_records has counted in updated_count has the
\* contributions of its fresh credits stored.
C27_CountedOnlyIfWritten ==
    \A j \in 1..updated_count :
        NamedContributions(contributors, ContributionsOf(j)) = FreshContributions(j)

\* ---------------------------------------------------------------------
\* C22: Reconciler and Aggregator do not influence each other
\* ---------------------------------------------------------------------

\* an edition with other credit lists: release-level credits c and one
\* track carrying the credits t
WithCredits(ed, c, t) ==
    [ed EXCEPT !.credits = c, !.tracklist = << [credits |-> t] >>]

\* the credit lists tried on the two editions: main release credits, main
\* release track credits, current release credits, its track credits
CreditVariants ==
    { << <<>>, <<>>, <<>>, <<>> >>,
      << <<CreditB, CreditA>>, <<>>, <<>>, <<>> >>,
      << <<>>, <<CreditB>>, <<>>, <<>> >>,
      << <<>>, <<>>, <<CreditA>>, <<>> >>,
      << <<>>, <<>>, <<>>, <<CreditA, CreditB>> >>,
      << <<CreditA>>, <<CreditB>>, <<CreditB>>, <<CreditA>> >> }

\* every key of the result but the categorized credits
ReconciledFields(d) == [f \in (DOMAIN d) \ {"musicians"} |-> d[f]]

\* C22: the reconciled fields (year, label, country, genres, styles,
\* tracklist, the edition ids and urls) of a format_release_data result are
\* the same for editions that differ only in their credit lists, and its
\* categorized credits are the same for editions that differ only in their
\* non-credit fields (same editions present, same failing request).
C22_ReconcilerAggregatorIndependent ==
    fpc = "done" =>
        /\ \A v \in CreditVariants :
             ReconciledFields(
                 format_release_data(WithCredits(release, v[3], v[4]), master,
                                     WithCredits(main_release, v[1], v[2]), fail))
               = ReconciledFields(data)
        /\ format_release_data(
               [FullRelease EXCEPT !.has_master = release.has_master,
                                   !.credits = release.credits,
                                   !.tracklist = release.tracklist],
               [FullMaster EXCEPT !.has_main_release = master.has_main_release],
               [FullMain EXCEPT !.credits = main_release.credits,
                                !.tracklist = main_release.tracklist],
               fail).musicians
             = data.musicians

\* C22 witness: a call that read the main release, took its genres because
\* the master had none, and categorized the main release's credit
C22_Witness ==
    /\ fpc = "done"
    /\ MainObtained
    /\ master.genres = <<>>
    /\ main_release.genres = <<"Jazz">>
    /\ data.genres = <<"Jazz">>
    /\ data.musicians # EmptyDict
    /\ release.country = NoneVal

\* ---------------------------------------------------------------------
\* C29: the original release id of every result
\* ---------------------------------------------------------------------

\* C29 as stated: every result of format_release_data has an
\* original_release_id and original_release_url that are not None, those of
\* the main release when it was obtained and those of the current release
\* in every other case, also when the master lists a main release and
\* fetching or reading it raises.
C29_OriginalIdNeverNull ==
    fpc = "done" =>
        /\ data.original_release_id # NoneVal
        /\ data.original_release_url # NoneList
        /\ data.original_release_id =
              (IF MainObtained THEN main_release.id ELSE release.id)
        /\ data.original_release_url = ReleaseUrl(data.original_release_id)

\* ---------------------------------------------------------------------
\* C28: the migration script and the live projector shred alike
\* ---------------------------------------------------------------------

\* C28 as stated: for every formatted credit string "name (roles)",
\* parse_credit_string followed by categorize_roles of
\* migrate_to_relational_credits.py gives the same name, pure_roles and
\* instruments as parse_credit_string followed by categorize_roles of db.py.
C28_MigrationShredsLikeProjector ==
    (ppc = "parsed" /\ (fmt_name # NoName \/ credit_str \in ExampleCredits)) =>
        MigrateShred(credit_str) = Shred(credit_str)

\* ---------------------------------------------------------------------
\* C25: contributor identity through format and re-parse
\* ---------------------------------------------------------------------

\* the formatted string of credit c lies in its bucket of musicians_data
\* and the bucket has a category row
PlacedUnderKnownCategory(c) ==
    LET b == BucketOf(c.role)
    IN  /\ b[1] \in DOMAIN musicians_data
        /\ b[2] \in DOMAIN musicians_data[b[1]]
        /\ \E i \in 1..Len(musicians_data[b[1]][b[2]]) :
              musicians_data[b[1]][b[2]][i] = FormatCredit(c.name, c.role)
        /\ CategoryId(b[1], b[2]) # NoneVal

\* C25 as stated: after insert_contributions_relational ran without a
\* failing request, every credit (name, role) that was formatted as
\* "name (role)" and placed under a known category has a Contributor with
\* exactly its name, whatever the role text: empty, with brackets, with
\* parentheses.
C25_IdentitySurvivesRoundTrip ==
    (runs > 0 /\ result.success /\ raised = {}) =>
        \A c \in IdentityUniverse :
            PlacedUnderKnownCategory(c) =>
                \E i \in 1..Len(contributors) : contributors[i].name = c.name

\* ---------------------------------------------------------------------
\* C26: no role token lost by projection
\* ---------------------------------------------------------------------

\* the elements of a list, as a set
Elements(s) == {s[i] : i \in 1..Len(s)}

\* C26 as stated: after insert_contributions_relational ran without a
\* failing request, every role token of every formatted string under a
\* known category is in the roles or instruments of the stored contribution
\* of that record, contributor and category, also when one contributor has
\* several strings with different roles in one bucket.
C26_NoRoleLost ==
    (runs > 0 /\ result.success /\ raised = {}) =>
        \A h \in DOMAIN musicians_data : \A sh \in DOMAIN musicians_data[h] :
            CategoryId(h, sh) # NoneVal =>
                \A k \in 1..Len(musicians_data[h][sh]) :
                    LET shredded == ShredOf(musicians_data[h][sh][k])
                        tokens   == Elements(shredded.split.pure_roles)
                                      \cup Elements(shredded.split.instruments)
                    IN  \E r \in 1..Len(contributions) :
                          /\ contributions[r].record_id = RecordId
                          /\ contributions[r].category_id = CategoryId(h, sh)
                          /\ contributions[r].contributor_id =
                                ContributorIdOf(contributors, shredded.name)
                          /\ tokens \subseteq Elements(contributions[r].roles)
                                      \cup Elements(contributions[r].instruments)

\* ---------------------------------------------------------------------
\* C23: display cleaning of parse_contributors
\* ---------------------------------------------------------------------

\* the entries the claim expects for a contributor name with its parts
CleanedEntries(name, parts) ==
    [i \in 1..Len(parts) |-> [musician |-> CleanName(name), role |-> parts[i]]]

\* C23 as stated: parse_contributors removes only a trailing
\* disambiguation number from the name and leaves the role tokens intact:
\* a contributor with name n and parts p yields the musician n without
\* its trailing number and exactly the roles p, both when it is given as a
\* dict and when it is given as the legacy string "n (p1, p2)".
C23_DisplayCleaningKeepsRoles ==
    dpc = "done" =>
        \A name \in DisplayNames, parts \in PartLists :
            /\ (/\ contributor_in.kind = "dict"
                /\ contributor_in.name = name
                /\ contributor_in.roles \o contributor_in.instruments = parts)
                  => parsed_data = CleanedEntries(name, parts)
            /\ (/\ contributor_in.kind = "str"
                /\ parts # <<>>
                /\ contributor_in.text = FormatCredit(name, JoinRoles(parts)))
                  => parsed_data = CleanedEntries(name, parts)

\* ---------------------------------------------------------------------
\* C24: two concurrent refreshes of one record
\* ---------------------------------------------------------------------

BothFinished == procs # <<>> /\ \A p \in Processes : procs[p].pc = "done"

\* the contributions of the refreshed record
RefreshedRows == SelectSeq(contributions, LAMBDA r : r.record_id = RecordId)

\* C24: when two processes run the delete-then-insert refresh of one
\* record with the same fresh credits, then in every interleaving of
\* their database requests, once both have finished there is one
\* contributor per name, and the record has one contribution per
\* (record, contributor, category) of the fresh credits: none twice, none
\* missing, none left from before.
C24_ConcurrentRefreshSafe ==
    BothFinished =>
        /\ \A i, j \in 1..Len(contributors) :
              contributors[i].name = contributors[j].name => i = j
        /\ \A i, j \in 1..Len(contributions) :
              SameKey(contributions[i], contributions[j]) => i = j
        /\ \A v \in 1..Len(FreshVisited) :
              /\ ContributorIdOf(contributors, FreshVisited[v][2].name) # 0
              /\ \E r \in 1..Len(RefreshedRows) :
                    /\ RefreshedRows[r].category_id = FreshVisited[v][1]
                    /\ RefreshedRows[r].contributor_id =
                          ContributorIdOf(contributors, FreshVisited[v][2].name)
        /\ \A r \in 1..Len(RefreshedRows) :
              \E v \in 1..Len(FreshVisited) :
                    /\ RefreshedRows[r].category_id = FreshVisited[v][1]
                    /\ RefreshedRows[r].contributor_id =
                          ContributorIdOf(contributors, FreshVisited[v][2].name)

\* C24 witness: both processes finished a refresh of two credits, and the
\* delete of the second removed a contribution the first had just written
C24_Witness ==
    /\ BothFinished
    /\ procs[2].overlap
    /\ Len(FreshVisited) = 2
    /\ Len(RefreshedRows) = 2
    /\ Len(contributors) = 2

\* ---------------------------------------------------------------------
\* C30: make_discogs_request is bounded
\* ---------------------------------------------------------------------

Retried == {"429"} \cup Raising

RequestBounded ==
    /\ Len(attempts) <= max_retries
    \* an attempt is followed by another only after a 429 or a raised error
    /\ \A i \in 1..(Len(attempts) - 1) : attempts[i] \in Retried
    \* any other response ends the call at once
    /\ rpc = "loop" => \A i \in 1..Len(attempts) : attempts[i] \in Retried
    /\ rpc = "done" =>
          /\ returned \in {NoneVal, ReturnedJson}
          /\ returned = ReturnedJson =>
                attempts # <<>> /\ attempts[Len(attempts)] = "200"
          /\ (\A i \in 1..Len(attempts) : attempts[i] # "200") =>
                returned = NoneVal
    /\ rpc # "done" => returned = NotReturned

====
